---------------------------- MODULE Spec2Model ----------------------------
(***************************************************************************)
(* TuiScrollbar performance analysis suite (Playwright + CDP tracing).     *)
(*                                                                         *)
(* The module models                                                       *)
(*   - the variant catalog (range, makeRafVariant, makeEventVariant,       *)
(*     TEST_VARIANTS),                                                     *)
(*   - the metric extractor and the outlier filter / means,                *)
(*   - the flags applyVariantConfig leaves in the page's sessionStorage,   *)
(*   - ResultsManager (a Map keyed by variant name, saveResults),          *)
(*   - one capture (capturePerformanceTrace) step by step, with the        *)
(*     tracing driver as the environment,                                  *)
(*   - the body of a variant test (config, trial loop, sample gate,        *)
(*     addResult, regression gate) and the suite around it (serial or      *)
(*     parallel mode, afterAll).                                           *)
(*                                                                         *)
(* Specifications:                                                         *)
(*   Spec        one variant test on one worker, every capture step and    *)
(*               every driver event interleaved;                           *)
(*   SuiteSpec   the whole suite on several worker processes, a capture    *)
(*               taken as one step with its three possible outcomes;       *)
(*   LimitsSpec  the end of a variant test for arbitrary ceilings;         *)
(*   GateSpec    the end of a variant test for arbitrary trial outcomes;   *)
(*   VerdictSpec the suite with a ceiling the sample trace reaches;        *)
(*   TimingSpec  the fixed pauses of a trial loop against the timeout;     *)
(*   ExtractSpec extractMetrics applied to arbitrary event lists;          *)
(*   StatsSpec   calculateStatistics applied to arbitrary trial lists;     *)
(*   SummarySpec the same in double arithmetic, constant lists included;   *)
(*   ConfigSpec  applyVariantConfig applied repeatedly to one page;         *)
(*   ScenarioSpec executeScrollScenario, statement by statement;           *)
(*   StoreSpec   ResultsManager.addResult applied to arbitrary results;    *)
(*   CatalogSpec the catalog generator applied to arbitrary value lists.   *)
(***************************************************************************)
EXTENDS Integers, Sequences, FiniteSets, TLC

VARIABLES
    mode,            \* "serial" | "parallel"          (TUI_PERF_PARALLEL)
    browserName,     \* the browser of the Playwright project the suite runs in
    runsPerVariant,  \* CONFIG.runsPerVariant          (TUI_PERF_RUNS)
    enforce,         \* ENFORCE_LIMITS                 (TUI_PERF_ENFORCE)
    limits,          \* LIMITS                         (TUI_PERF_MAX_*)
    testStatus,      \* per registered test: pending/running/passed/failed/skipped
    pc,              \* per worker process: where it is in the suite / test body
    cur,             \* per worker: index of the test it runs (0: none)
    run,             \* per worker: the loop variable `run` of the trial loop
    runs,            \* per worker: the local list `runs` of the test body
    results,         \* per worker process: ResultsManager.results (a Map)
    client,          \* per worker: the CDP session of the capture in progress
    events,          \* per worker: the local list `events` of the capture
    hist,            \* per worker: what happened in the capture and the trials so far
    file,            \* scrollbar-performance-results.json on disk
    saves,           \* number of completed saveResults calls
    added,           \* StoreSpec: the results passed to addResult so far
    valueLists,      \* CatalogSpec: the three value lists the catalog is built from
    catalog,         \* CatalogSpec: the generated catalog
    loaded,          \* CatalogSpec: the module has been evaluated, tests registered
    input,           \* the arguments of a call of the function a specification applies
    output,          \* <<>> or the values that call returned
    page,            \* ConfigSpec: a page, its sessionStorage and its init scripts
    scenario,        \* ScenarioSpec: one run of executeScrollScenario in progress
    timing           \* TimingSpec: the trial loop of one test and its fixed pauses

vars == <<mode, browserName, runsPerVariant, enforce, limits, testStatus, pc, cur, run, runs, results,
          client, events, hist, file, saves, added, valueLists, catalog, loaded,
          input, output, page, scenario, timing>>

suiteVars == <<mode, browserName, runsPerVariant, enforce, limits, testStatus, pc, cur,
               run, runs, results, client, events, hist, file, saves>>

-----------------------------------------------------------------------------
(* Bounds of the model *)

MaxRuns == 2        \* Spec: runsPerVariant ranges over 0..MaxRuns
MaxBatches == 2     \* Spec: dataCollected batches the driver pushes per capture
MaxTests == 2       \* SuiteSpec: tests of the catalog selected for the run
MaxSuiteRuns == 1   \* SuiteSpec: runsPerVariant ranges over 0..MaxSuiteRuns
MaxAdds == 3        \* StoreSpec: addResult calls
MaxListLen == 2     \* CatalogSpec: length of a value list
MaxEvents == 3      \* ExtractSpec: events in a list cut in two parts or reordered
MaxMixed == 2       \* ExtractSpec: events in a list of any sample events
MaxTrials == 5      \* StatsSpec: trials in the list given to the statistics
MaxVaried == 4      \* SummarySpec: trials in a list of any sample trials
MaxApplies == 2     \* ConfigSpec: applyVariantConfig calls on one page
MaxScenarioRuns == 2  \* ScenarioSpec: runs of the scenario on one page

Workers == {"w1", "w2"}   \* worker processes Playwright may start

DefaultRuns == 10   \* CONFIG.runsPerVariant when TUI_PERF_RUNS is not set

\* An optional field that is absent is a field the record does not have.
Has(record, field) == field \in DOMAIN record

-----------------------------------------------------------------------------
(* Variant catalog *)

RECURSIVE rangeExclusive(_, _, _)
rangeExclusive(start, end, step) ==
    IF start < end THEN <<start>> \o rangeExclusive(start + step, end, step) ELSE <<>>

\* for (let v = start; v <= end; v += step) out.push(v)
RECURSIVE range(_, _, _)
range(start, end, step) ==
    IF start <= end THEN <<start>> \o range(start + step, end, step) ELSE <<>>

DEBOUNCE_VALUES == range(50, 100, 10)

SCROLL_THROTTLE_VALUES == range(0, 16, 2)

RAF_THROTTLE_VALUES == range(0, 10, 2)

makeEventVariant(debounceMs, throttleMs, withGpu) ==
    LET title == IF withGpu THEN "events+transform(gpu)" ELSE "events"
    IN  [name |-> title \o "-d" \o ToString(debounceMs) \o "ms-t"
                        \o ToString(throttleMs) \o "ms",
         description |-> title \o " with separate debounce (RO/MO) and throttle (scroll)",
         config |-> [debounceMs |-> debounceMs,
                     throttleMs |-> throttleMs,
                     scheduler |-> "microtask"]
                    @@ (IF withGpu THEN [useGpuAcceleration |-> TRUE] ELSE <<>>)]

makeRafVariant(throttleMs) ==
    [name |-> "raf-t" \o ToString(throttleMs) \o "ms",
     description |-> "RAF in BOTH scroll-controls and directive (baseline polling), throttle on RAF stream",
     config |-> [debounceMs |-> 0,
                 throttleMs |-> throttleMs,
                 scheduler |-> "raf",
                 useOriginalScrollControls |-> TRUE]]

\* RAF_THROTTLE_VALUES.map((t) => makeRafVariant(t))
RafVariants(rafValues) ==
    [i \in 1..Len(rafValues) |-> makeRafVariant(rafValues[i])]

\* DEBOUNCE_VALUES.flatMap((d) =>
\*     SCROLL_THROTTLE_VALUES.map((t) => makeEventVariant(d, t, withGpu)))
RECURSIVE EventVariants(_, _, _)
EventVariants(debounceValues, throttleValues, withGpu) ==
    IF debounceValues = <<>> THEN <<>>
    ELSE [i \in 1..Len(throttleValues) |->
              makeEventVariant(Head(debounceValues), throttleValues[i], withGpu)]
         \o EventVariants(Tail(debounceValues), throttleValues, withGpu)

CatalogGpuFirst(rafValues, debounceValues, throttleValues) ==
    RafVariants(rafValues)
    \o EventVariants(debounceValues, throttleValues, TRUE)
    \o EventVariants(debounceValues, throttleValues, FALSE)

\* The array literal of TEST_VARIANTS over given value lists.
Catalog(rafValues, debounceValues, throttleValues) ==
    RafVariants(rafValues)
    \o EventVariants(debounceValues, throttleValues, FALSE)
    \o EventVariants(debounceValues, throttleValues, TRUE)

TEST_VARIANTS == Catalog(RAF_THROTTLE_VALUES, DEBOUNCE_VALUES, SCROLL_THROTTLE_VALUES)

Names(variants) == {variants[i].name : i \in 1..Len(variants)}

UniqueNames(variants) ==
    \A i, j \in 1..Len(variants) : variants[i].name = variants[j].name => i = j

-----------------------------------------------------------------------------
(* Double-precision arithmetic on the durations of a trace.  A non-negative  *)
(* double x below 65536 is kept as the integer x * 2^80, written as six      *)
(* digits of base 2^16, most significant first: every double of at least     *)
(* 2^-28 has this form exactly.  Results are rounded to 53 significant bits, *)
(* ties to even, as IEEE 754 prescribes.                                     *)

\* Not-a-number, the value of 0 / 0 and of Number('abc').
NaN == <<>>

LimbBase == 65536

LimbCount == 6

DoubleZero == [i \in 1..LimbCount |-> 0]

\* The digit of weight LimbBase^q (q = 0 for the least significant).
Limb(x, q) == x[LimbCount - q]

\* An integer below 65536 as a double.
FromInteger(n) == [i \in 1..LimbCount |-> IF i = 1 THEN n ELSE 0]

BitLength(v) == IF v = 0 THEN 0 ELSE CHOOSE k \in 1..16 : 2^(k - 1) <= v /\ v < 2^k

\* Bit k of the integer (k = 0 for the least significant).
BitAt(x, k) == (Limb(x, k \div 16) \div 2^(k % 16)) % 2

\* The position of the leading 1 of a non-zero value.
TopBit(x) ==
    LET q == CHOOSE q \in 0..(LimbCount - 1) :
                 /\ Limb(x, q) # 0
                 /\ \A r \in (q + 1)..(LimbCount - 1) : Limb(x, r) = 0
    IN  16 * q + BitLength(Limb(x, q)) - 1

\* The k least significant bits are all 0.
LowBitsZero(x, k) ==
    \A q \in 0..(LimbCount - 1) :
        IF 16 * (q + 1) <= k THEN Limb(x, q) = 0
        ELSE IF 16 * q < k THEN Limb(x, q) % 2^(k - 16 * q) = 0
        ELSE TRUE

\* The value with its k least significant bits set to 0.
ClearLow(x, k) ==
    [i \in 1..LimbCount |->
        LET q == LimbCount - i
        IN  IF 16 * (q + 1) <= k THEN 0
            ELSE IF 16 * q < k THEN x[i] - (x[i] % 2^(k - 16 * q))
            ELSE x[i]]

PowerOfTwo(k) ==
    [i \in 1..LimbCount |-> IF LimbCount - i = k \div 16 THEN 2^(k % 16) ELSE 0]

\* The carry into the digit of weight LimbBase^q when x and y are added.
RECURSIVE CarryInto(_, _, _)
CarryInto(x, y, q) ==
    IF q = 0 THEN 0
    ELSE (Limb(x, q - 1) + Limb(y, q - 1) + CarryInto(x, y, q - 1)) \div LimbBase

\* The exact sum of two values.
AddLimbs(x, y) ==
    [i \in 1..LimbCount |->
        LET q == LimbCount - i
        IN  (x[i] + y[i] + CarryInto(x, y, q)) % LimbBase]

\* Rounding to the nearest double, ties to even; `inexact` tells that the
\* value is greater than x by less than one unit of its last digit.
RoundToDouble(x, inexact) ==
    IF x = DoubleZero \/ TopBit(x) < 53 THEN x
    ELSE LET drop == TopBit(x) - 52
             guard == BitAt(x, drop - 1) = 1
             rest == inexact \/ ~LowBitsZero(x, drop - 1)
             odd == BitAt(x, drop) = 1
         IN  IF guard /\ (rest \/ odd)
             THEN AddLimbs(ClearLow(x, drop), PowerOfTwo(drop))
             ELSE ClearLow(x, drop)

\* a + b on doubles.
DoublePlus(a, b) == RoundToDouble(AddLimbs(a, b), FALSE)

\* The digits of x / n and the last remainder of the long division, the
\* remainder r carried in (n below 32768).
RECURSIVE DivideLimbs(_, _, _, _)
DivideLimbs(x, n, i, r) ==
    IF i > LimbCount THEN <<r>>
    ELSE LET t == r * LimbBase + x[i]
         IN  <<t \div n>> \o DivideLimbs(x, n, i + 1, t % n)

\* a / n on doubles, n an integer below 32768.
DoubleDivide(a, n) ==
    LET division == DivideLimbs(a, n, 1, 0)
    IN  RoundToDouble(SubSeq(division, 1, LimbCount), division[LimbCount + 1] # 0)

\* x <= y on doubles.
DoubleAtMost(x, y) ==
    \/ x = y
    \/ \E i \in 1..LimbCount : x[i] < y[i] /\ \A j \in 1..(i - 1) : x[j] = y[j]

\* The borrow from the digit of weight LimbBase^q when y is taken from x.
RECURSIVE BorrowFrom(_, _, _)
BorrowFrom(x, y, q) ==
    IF q = 0 THEN 0
    ELSE IF Limb(x, q - 1) - Limb(y, q - 1) - BorrowFrom(x, y, q - 1) < 0 THEN 1 ELSE 0

\* The exact difference x - y, for y <= x.
SubtractLimbs(x, y) ==
    [i \in 1..LimbCount |->
        LET q == LimbCount - i
        IN  (x[i] - y[i] - BorrowFrom(x, y, q) + LimbBase) % LimbBase]

\* a - b on doubles, for b <= a.
DoubleMinus(a, b) == RoundToDouble(SubtractLimbs(a, b), FALSE)

\* |a - b| on doubles.
AbsDifference(a, b) ==
    IF DoubleAtMost(b, a) THEN DoubleMinus(a, b) ELSE DoubleMinus(b, a)

\* 1.5 * x on doubles: the exact product is x + x / 2.
TimesThreeHalves(x) ==
    LET half == DivideLimbs(x, 2, 1, 0)
    IN  RoundToDouble(AddLimbs(x, SubSeq(half, 1, LimbCount)), half[LimbCount + 1] # 0)

-----------------------------------------------------------------------------
(* Metric extractor.  The loop is modelled once, over two arithmetics:       *)
(* "double" computes a duration in milliseconds as the program does, in      *)
(* doubles; "exact" keeps it as the exact number of thousandths (the         *)
(* integer dur stands for dur / 1000), which the statistics of the suite     *)
(* specifications are computed from.                                         *)

\* String.prototype.includes
Includes(s, sub) ==
    \E i \in 1..(Len(s) - Len(sub) + 1) : SubSeq(s, i, i + Len(sub) - 1) = sub

\* The number 0 of an arithmetic.
Zero(arith) == IF arith = "double" THEN DoubleZero ELSE 0

\* event.dur / 1000
DurationMs(arith, dur) ==
    IF arith = "double" THEN DoubleDivide(FromInteger(dur), 1000) ELSE dur

AccumulateSubtracts(arith, total, durationMs) ==
    IF arith = "double" THEN DoublePlus(total, durationMs) ELSE total - durationMs

\* total + durationMs
Accumulate(arith, total, durationMs) ==
    IF arith = "double" THEN DoublePlus(total, durationMs) ELSE total + durationMs

ZeroMetrics(arith) ==
    [layoutCount |-> 0, recalcStyleCount |-> 0,
     layoutDuration |-> Zero(arith), recalcStyleDuration |-> Zero(arith)]

\* !event.cat?.includes('devtools.timeline') is false: the event is looked at.
PassesCategoryFilter(event) ==
    Has(event, "cat") /\ Includes(event.cat, "devtools.timeline")

CountEventAssigns(arith, metrics, event) ==
    IF ~PassesCategoryFilter(event)
    THEN metrics
    ELSE LET durationMs == IF Has(event, "dur") /\ event.dur # 0
                           THEN DurationMs(arith, event.dur) ELSE Zero(arith)
         IN  CASE event.name = "Layout" ->
                    [metrics EXCEPT !.layoutCount = @ + 1,
                                    !.layoutDuration = durationMs]
               [] event.name \in {"RecalculateStyles", "UpdateLayoutTree"} ->
                    [metrics EXCEPT !.recalcStyleCount = @ + 1,
                                    !.recalcStyleDuration = durationMs]
               [] OTHER -> metrics

CountEventOneName(arith, metrics, event) ==
    IF ~PassesCategoryFilter(event)
    THEN metrics
    ELSE LET durationMs == IF Has(event, "dur") /\ event.dur # 0
                           THEN DurationMs(arith, event.dur) ELSE Zero(arith)
         IN  CASE event.name = "Layout" ->
                    [metrics EXCEPT !.layoutCount = @ + 1,
                                    !.layoutDuration = Accumulate(arith, @, durationMs)]
               [] event.name = "RecalculateStyles" ->
                    [metrics EXCEPT !.recalcStyleCount = @ + 1,
                                    !.recalcStyleDuration = Accumulate(arith, @, durationMs)]
               [] OTHER -> metrics

\* One iteration of the loop of extractMetrics.
CountEvent(arith, metrics, event) ==
    IF ~PassesCategoryFilter(event)
    THEN metrics
    ELSE LET durationMs == IF Has(event, "dur") /\ event.dur # 0
                           THEN DurationMs(arith, event.dur) ELSE Zero(arith)
         IN  CASE event.name = "Layout" ->
                    [metrics EXCEPT !.layoutCount = @ + 1,
                                    !.layoutDuration = Accumulate(arith, @, durationMs)]
               [] event.name \in {"RecalculateStyles", "UpdateLayoutTree"} ->
                    [metrics EXCEPT !.recalcStyleCount = @ + 1,
                                    !.recalcStyleDuration = Accumulate(arith, @, durationMs)]
               [] OTHER -> metrics

RECURSIVE ExtractFromBreaks(_, _, _)
ExtractFromBreaks(arith, metrics, evs) ==
    IF evs = <<>> \/ ~PassesCategoryFilter(Head(evs)) THEN metrics
    ELSE ExtractFromBreaks(arith, CountEvent(arith, metrics, Head(evs)), Tail(evs))

\* for (const event of events) { ... }
RECURSIVE ExtractFrom(_, _, _)
ExtractFrom(arith, metrics, evs) ==
    IF evs = <<>> THEN metrics
    ELSE ExtractFrom(arith, CountEvent(arith, metrics, Head(evs)), Tail(evs))

\* PerformanceMeasurer.extractMetrics
extractMetrics(evs) == ExtractFrom("double", ZeroMetrics("double"), evs)

\* The same with the durations as exact thousandths.
extractMetricsExact(evs) == ExtractFrom("exact", ZeroMetrics("exact"), evs)

-----------------------------------------------------------------------------
(* Statistics: outlier filter and means *)

RECURSIVE Insert(_, _)
Insert(v, sorted) ==
    IF sorted = <<>> THEN <<v>>
    ELSE IF v < Head(sorted) THEN <<v>> \o sorted
    ELSE <<Head(sorted)>> \o Insert(v, Tail(sorted))

\* durations.sort((a, b) => a - b)
RECURSIVE SortAscending(_)
SortAscending(s) ==
    IF s = <<>> THEN <<>> ELSE Insert(Head(s), SortAscending(Tail(s)))

RECURSIVE FilterStrictlyInBounds(_, _, _)
FilterStrictlyInBounds(rs, lowerBound2, upperBound2) ==
    IF rs = <<>> THEN <<>>
    ELSE (IF /\ 2 * Head(rs).layoutDuration > lowerBound2
             /\ 2 * Head(rs).layoutDuration < upperBound2
          THEN <<Head(rs)>> ELSE <<>>)
         \o FilterStrictlyInBounds(Tail(rs), lowerBound2, upperBound2)

\* runs.filter((run) => run.layoutDuration >= lowerBound &&
\*     run.layoutDuration <= upperBound), the bounds given doubled.
RECURSIVE FilterInBounds(_, _, _)
FilterInBounds(rs, lowerBound2, upperBound2) ==
    IF rs = <<>> THEN <<>>
    ELSE (IF /\ 2 * Head(rs).layoutDuration >= lowerBound2
             /\ 2 * Head(rs).layoutDuration <= upperBound2
          THEN <<Head(rs)>> ELSE <<>>)
         \o FilterInBounds(Tail(rs), lowerBound2, upperBound2)

removeOutliersDropsShort(rs) ==
    IF Len(rs) < 4 THEN <<>>
    ELSE LET durations == SortAscending([i \in 1..Len(rs) |-> rs[i].layoutDuration])
             q1 == durations[(Len(durations) \div 4) + 1]
             q3 == durations[((3 * Len(durations)) \div 4) + 1]
             iqr == q3 - q1
         IN  FilterInBounds(rs, 2 * q1 - 3 * iqr, 2 * q3 + 3 * iqr)

\* lowerBound = q1 - 1.5 * iqr and upperBound = q3 + 1.5 * iqr, kept doubled.
removeOutliers(rs) ==
    IF Len(rs) < 4 THEN rs
    ELSE LET durations == SortAscending([i \in 1..Len(rs) |-> rs[i].layoutDuration])
             q1 == durations[(Len(durations) \div 4) + 1]
             q3 == durations[((3 * Len(durations)) \div 4) + 1]
             iqr == q3 - q1
         IN  FilterInBounds(rs, 2 * q1 - 3 * iqr, 2 * q3 + 3 * iqr)

RECURSIVE InsertRun(_, _)
InsertRun(r, sorted) ==
    IF sorted = <<>> THEN <<r>>
    ELSE IF r.layoutDuration < Head(sorted).layoutDuration THEN <<r>> \o sorted
    ELSE <<Head(sorted)>> \o InsertRun(r, Tail(sorted))

RECURSIVE RunsAfterSortInPlace(_)
RunsAfterSortInPlace(rs) ==
    IF rs = <<>> THEN <<>> ELSE InsertRun(Head(rs), RunsAfterSortInPlace(Tail(rs)))

\* The array passed as `runs`, as it is when removeOutliers has returned:
\* runs.map and runs.filter build new arrays and durations.sort sorts the
\* mapped copy, so no statement writes to the argument.
RunsAfterRemoveOutliers(rs) == rs

RECURSIVE Sum(_)
Sum(s) == IF s = <<>> THEN 0 ELSE Head(s) + Sum(Tail(s))

\* values.reduce((a, b) => a + b, 0) / values.length, kept as the exact
\* fraction <<numerator, denominator>>; a denominator of 0 is NaN.
Mean(values) == <<Sum(values), Len(values)>>

\* The means of calculateStatistics, over the filtered runs.
calculateStatistics(rs) ==
    LET filteredRuns == removeOutliers(rs)
        column(metric) == [i \in 1..Len(filteredRuns) |-> filteredRuns[i][metric]]
    IN  [metric \in {"layoutCount", "layoutDuration",
                     "recalcStyleCount", "recalcStyleDuration"} |-> Mean(column(metric))]

-----------------------------------------------------------------------------
(* Statistics as the program computes them, in doubles.  A trial has its     *)
(* four fields as doubles (a count n is the double n).  Squares and square   *)
(* roots of the deviations leave the range of the digits kept here, so a     *)
(* standard deviation is kept as the list of the deviations |b - mean| it is *)
(* the root mean square of, and a confidence interval as its centre and the  *)
(* standard deviation its margin 1.96 * stdDev / sqrt(n) is computed from.   *)

MetricNames == {"layoutCount", "layoutDuration", "recalcStyleCount", "recalcStyleDuration"}

RECURSIVE InsertDouble(_, _)
InsertDouble(v, sorted) ==
    IF sorted = <<>> THEN <<v>>
    ELSE IF ~DoubleAtMost(Head(sorted), v) THEN <<v>> \o sorted
    ELSE <<Head(sorted)>> \o InsertDouble(v, Tail(sorted))

\* durations.sort((a, b) => a - b)
RECURSIVE SortAscendingDouble(_)
SortAscendingDouble(s) ==
    IF s = <<>> THEN <<>> ELSE InsertDouble(Head(s), SortAscendingDouble(Tail(s)))

\* v >= q1 - 1.5 * iqr, the product given as margin: a difference below zero
\* is below every duration.
AtLeastLowerBound(v, q1, margin) ==
    IF DoubleAtMost(margin, q1) THEN DoubleAtMost(DoubleMinus(q1, margin), v) ELSE TRUE

\* v <= q3 + 1.5 * iqr
AtMostUpperBound(v, q3, margin) == DoubleAtMost(v, DoublePlus(q3, margin))

RECURSIVE FilterStrictlyInBoundsDouble(_, _, _, _)
FilterStrictlyInBoundsDouble(rs, q1, q3, margin) ==
    IF rs = <<>> THEN <<>>
    ELSE (IF /\ AtLeastLowerBound(Head(rs).layoutDuration, q1, margin)
             /\ AtMostUpperBound(Head(rs).layoutDuration, q3, margin)
             /\ (DoubleAtMost(margin, q1) => Head(rs).layoutDuration # DoubleMinus(q1, margin))
             /\ Head(rs).layoutDuration # DoublePlus(q3, margin)
          THEN <<Head(rs)>> ELSE <<>>)
         \o FilterStrictlyInBoundsDouble(Tail(rs), q1, q3, margin)

\* runs.filter((run) => run.layoutDuration >= lowerBound &&
\*     run.layoutDuration <= upperBound)
RECURSIVE FilterInBoundsDouble(_, _, _, _)
FilterInBoundsDouble(rs, q1, q3, margin) ==
    IF rs = <<>> THEN <<>>
    ELSE (IF /\ AtLeastLowerBound(Head(rs).layoutDuration, q1, margin)
             /\ AtMostUpperBound(Head(rs).layoutDuration, q3, margin)
          THEN <<Head(rs)>> ELSE <<>>)
         \o FilterInBoundsDouble(Tail(rs), q1, q3, margin)

removeOutliersDouble(rs) ==
    IF Len(rs) < 4 THEN rs
    ELSE LET durations == SortAscendingDouble([i \in 1..Len(rs) |-> rs[i].layoutDuration])
             q1 == durations[(Len(durations) \div 4) + 1]
             q3 == durations[((3 * Len(durations)) \div 4) + 1]
             iqr == DoubleMinus(q3, q1)
         IN  FilterInBoundsDouble(rs, q1, q3, TimesThreeHalves(iqr))

\* values.reduce((a, b) => a + b, 0): the values added from the left.
RECURSIVE SumDouble(_)
SumDouble(values) ==
    IF values = <<>> THEN DoubleZero
    ELSE DoublePlus(SumDouble(SubSeq(values, 1, Len(values) - 1)), values[Len(values)])

\* The sum divided by values.length; 0 / 0 is NaN.
MeanDouble(values) ==
    IF values = <<>> THEN NaN ELSE DoubleDivide(SumDouble(values), Len(values))

\* Math.sqrt of the mean of the squares of b - mean.
standardDeviation(values) ==
    [rootMeanSquareOf |->
        [i \in 1..Len(values) |-> AbsDifference(values[i], MeanDouble(values))]]

\* The standard deviation is the number 0: every b - mean is 0, and only
\* then is the sum of the squares 0.
IsZeroDeviation(stdDev) ==
    /\ stdDev.rootMeanSquareOf # <<>>
    /\ \A i \in 1..Len(stdDev.rootMeanSquareOf) : stdDev.rootMeanSquareOf[i] = DoubleZero

\* [mean - marginOfError, mean + marginOfError]
ConfidenceInterval(mean, stdDev) == [around |-> mean, marginFrom |-> stdDev]

\* Both bounds of the interval are the number c: the margin is 0 (as the
\* standard deviation is) and the centre is c.
IsPointInterval(interval, c) ==
    /\ interval.around = c
    /\ IsZeroDeviation(interval.marginFrom)

calculateStatisticsDouble(rs) ==
    LET filteredRuns == removeOutliersDouble(rs)
        values(metric) == [i \in 1..Len(filteredRuns) |-> filteredRuns[i][metric]]
    IN  [summary |-> [metric \in MetricNames |-> MeanDouble(values(metric))],
         standardDeviation |-> [metric \in MetricNames |-> standardDeviation(values(metric))],
         confidence |->
             [metric \in MetricNames |->
                 ConfidenceInterval(MeanDouble(values(metric)),
                                    standardDeviation(values(metric)))]]

-----------------------------------------------------------------------------
(* ResultsManager: a Map<string, TestResult>, kept as the sequence of its     *)
(* entries in insertion order.                                                *)

EmptyMap == <<>>

MapHas(m, key) == \E i \in 1..Len(m) : m[i].key = key

MapKeys(m) == {m[i].key : i \in 1..Len(m)}

MapSetKeepsFirst(m, key, value) ==
    IF MapHas(m, key) THEN m ELSE Append(m, [key |-> key, value |-> value])

\* Map.prototype.set: an existing key keeps its place and gets the new value.
MapSet(m, key, value) ==
    IF MapHas(m, key)
    THEN [i \in 1..Len(m) |-> IF m[i].key = key THEN [key |-> key, value |-> value]
                                                 ELSE m[i]]
    ELSE Append(m, [key |-> key, value |-> value])

\* ResultsManager.addResult
addResult(store, result) == MapSet(store, result.variant.name, result)

\* The object saveResults serialises.
aggregatedResults(store, n) ==
    [metadata |-> [runsPerVariant |-> n, variants |-> Len(TEST_VARIANTS)],
     results |-> store]

\* The output file: no file, or the one object written last.
NoFile == <<>>

Written(object) == <<object>>

Content(f) == f[1]

-----------------------------------------------------------------------------
(* Configuration read from the environment.  A value of Number(...) is <<n>> *)
(* for the number n and <<>> for NaN.                                         *)

Digits == "0123456789"

IsDigit(c) == \E i \in 1..10 : SubSeq(Digits, i, i) = c

DigitValue(c) == (CHOOSE i \in 1..10 : SubSeq(Digits, i, i) = c) - 1

RECURSIVE DecimalValue(_)
DecimalValue(s) ==
    IF s = "" THEN 0
    ELSE 10 * DecimalValue(SubSeq(s, 1, Len(s) - 1)) + DigitValue(SubSeq(s, Len(s), Len(s)))

\* Number(string), for the empty string, strings of decimal digits and strings
\* that are no numeric literal.
Number(s) ==
    IF \A i \in 1..Len(s) : IsDigit(SubSeq(s, i, i)) THEN <<DecimalValue(s)>> ELSE NaN

\* process.env has no variable set.
NoEnv == <<>>

\* process.env.NAME || fallback: an unset or empty variable gives the fallback.
EnvOr(env, name, fallback) ==
    IF Has(env, name) /\ env[name] # "" THEN env[name] ELSE fallback

\* A number of milliseconds in thousandths, as durations are kept.
Thousandths(number) == IF number = NaN THEN NaN ELSE <<1000 * number[1]>>

\* LIMITS, keyed by the summary field each ceiling is compared with.
LIMITS(env) ==
    [layoutCount |-> Number(EnvOr(env, "TUI_PERF_MAX_LAYOUT_COUNT", "500")),
     layoutDuration |-> Thousandths(Number(EnvOr(env, "TUI_PERF_MAX_LAYOUT_MS", "200"))),
     recalcStyleCount |-> Number(EnvOr(env, "TUI_PERF_MAX_RECALC_COUNT", "2000")),
     recalcStyleDuration |-> Thousandths(Number(EnvOr(env, "TUI_PERF_MAX_RECALC_MS", "150")))]

\* process.env.TUI_PERF_ENFORCE === '1'
ENFORCE_LIMITS(env) == Has(env, "TUI_PERF_ENFORCE") /\ env.TUI_PERF_ENFORCE = "1"

-----------------------------------------------------------------------------
(* The page: its sessionStorage, which survives a reload, and the init       *)
(* scripts registered on it, which a navigation runs in the order they were  *)
(* added.  An item is <<value>>, a missing item (getItem gives null) <<>>.   *)

Null == <<>>

Item(value) == <<value>>

\* The keys removed by the init script.
ClearedKeys ==
    {"tui-scrollbar-raf", "tui-scroll-controls-raf",
     "tui-scrollbar-no-mutation", "tui-scrollbar-transform"}

\* The keys the init script always writes.
TimingKeys ==
    {"tui-scrollbar-debounce", "tui-scrollbar-throttle",
     "tui-scroll-controls-debounce", "tui-scroll-controls-throttle"}

FlagKeys == ClearedKeys \cup TimingKeys

\* sessionStorage.removeItem(key) for every key of the set.
RemoveItems(storage, keys) ==
    [k \in DOMAIN storage |-> IF k \in keys THEN Null ELSE storage[k]]

\* sessionStorage.setItem(key, value)
SetItem(storage, key, value) == [storage EXCEPT ![key] = Item(value)]

\* The script without removeItem('tui-scrollbar-transform').
InitScriptKeepsTransform(config, storage) ==
    LET cleared == RemoveItems(storage, ClearedKeys \ {"tui-scrollbar-transform"})
        debounce == SetItem(cleared, "tui-scrollbar-debounce", ToString(config.debounceMs))
        throttle == SetItem(debounce, "tui-scrollbar-throttle", ToString(config.throttleMs))
        scDebounce == SetItem(throttle, "tui-scroll-controls-debounce",
                              ToString(config.debounceMs))
        scThrottle == SetItem(scDebounce, "tui-scroll-controls-throttle",
                              ToString(config.throttleMs))
        raf == IF config.scheduler = "raf"
               THEN LET directive == SetItem(scThrottle, "tui-scrollbar-raf", "1")
                    IN  IF Has(config, "useOriginalScrollControls")
                           /\ config.useOriginalScrollControls
                        THEN SetItem(directive, "tui-scroll-controls-raf", "1")
                        ELSE directive
               ELSE scThrottle
    IN  IF Has(config, "useGpuAcceleration")
        THEN SetItem(raf, "tui-scrollbar-transform",
                     IF config.useGpuAcceleration THEN "1" ELSE "0")
        ELSE raf

\* The function given to page.addInitScript, run with its config on the
\* storage of the page.
InitScript(config, storage) ==
    LET cleared == RemoveItems(storage, ClearedKeys)
        debounce == SetItem(cleared, "tui-scrollbar-debounce", ToString(config.debounceMs))
        throttle == SetItem(debounce, "tui-scrollbar-throttle", ToString(config.throttleMs))
        scDebounce == SetItem(throttle, "tui-scroll-controls-debounce",
                              ToString(config.debounceMs))
        scThrottle == SetItem(scDebounce, "tui-scroll-controls-throttle",
                              ToString(config.throttleMs))
        raf == IF config.scheduler = "raf"
               THEN LET directive == SetItem(scThrottle, "tui-scrollbar-raf", "1")
                    IN  IF Has(config, "useOriginalScrollControls")
                           /\ config.useOriginalScrollControls
                        THEN SetItem(directive, "tui-scroll-controls-raf", "1")
                        ELSE directive
               ELSE scThrottle
    IN  IF Has(config, "useGpuAcceleration")
        THEN SetItem(raf, "tui-scrollbar-transform",
                     IF config.useGpuAcceleration THEN "1" ELSE "0")
        ELSE raf

\* page.reload(): every init script of the page runs, in the order added.
RECURSIVE Reload(_, _)
Reload(initScripts, storage) ==
    IF initScripts = <<>> THEN storage
    ELSE Reload(Tail(initScripts), InitScript(Head(initScripts), storage))

\* The object read back by page.evaluate after the reload.
ConfigCheck(storage) ==
    [rafMode |-> storage["tui-scrollbar-raf"],
     rafScrollControls |-> storage["tui-scroll-controls-raf"],
     debounce |-> storage["tui-scrollbar-debounce"],
     throttle |-> storage["tui-scrollbar-throttle"],
     scDebounce |-> storage["tui-scroll-controls-debounce"],
     scThrottle |-> storage["tui-scroll-controls-throttle"],
     transform |-> storage["tui-scrollbar-transform"],
     noMutation |-> storage["tui-scrollbar-no-mutation"]]

NoTiming == [at |-> "none"]

\* A fresh page; atStart keeps the storage the page had at first.
NoPage == [sessionStorage |-> [k \in FlagKeys |-> Null], initScripts |-> <<>>,
           checks |-> <<>>, atStart |-> [k \in FlagKeys |-> Null]]

\* PerformanceMeasurer.applyVariantConfig(page, variant) with variant.config
\* given: the page after the call, its list `checks` extended by the config
\* and the configCheck that was read back.
applyVariantConfig(p, config) ==
    LET initScripts == Append(p.initScripts, config)
        storage == Reload(initScripts, p.sessionStorage)
    IN  [sessionStorage |-> storage,
         initScripts |-> initScripts,
         checks |-> Append(p.checks, [config |-> config, configCheck |-> ConfigCheck(storage)]),
         atStart |-> p.atStart]

-----------------------------------------------------------------------------
(* PerformanceMeasurer.executeScrollScenario, one awaited statement at a     *)
(* time.  scenario.issued lists the operations sent to the page in this run, *)
(* scenario.waited adds up the waitForTimeout pauses of this run; hue is the *)
(* value of --tui-perf-hue on the root element and dynamicNodes the number   *)
(* of nodes appended to the first scrollbar, both kept from run to run.      *)

exampleIndices == <<0, 1, 8, 9, 10, 11, 12, 13>>

ScrollIterations == 15

ScrollAmount == 50

InjectEvery == 3

StyleIterations == 5

SettleMs == 100

ScrollWaitMs == 8

StyleWaitMs == 30

ExamplePauseMs == 50

NoScenario == [pc |-> "none"]

\* The call executeScrollScenario(page) starts: run number `number` on a page
\* that was given the config and whose root element has the hue.
ScenarioStart(config, number, hue, dynamicNodes) ==
    [pc |-> "scrollIntoView", example |-> 1, i |-> 0, j |-> 0, issued |-> <<>>,
     waited |-> 0, hue |-> hue, dynamicNodes |-> dynamicNodes, config |-> config,
     number |-> number]

\* The index of the example the outer loop is at.
ExampleIndex == exampleIndices[scenario.example]

Issue(operation) == Append(scenario.issued, operation)

WaitForTimeout(ms) == [op |-> "waitForTimeout", ms |-> ms]

\* example.scrollIntoViewIfNeeded()
ScrollIntoView ==
    /\ scenario.pc = "scrollIntoView"
    /\ scenario' = [scenario EXCEPT
           !.pc = "settle",
           !.issued = Issue([op |-> "scrollIntoViewIfNeeded", example |-> ExampleIndex])]

\* page.waitForTimeout(100), then `let i = 0` and the loop condition.
Settle ==
    /\ scenario.pc = "settle"
    /\ scenario' = [scenario EXCEPT
           !.pc = IF 0 < ScrollIterations THEN "scroll" ELSE "addStyleTag",
           !.i = 0,
           !.issued = Issue(WaitForTimeout(SettleMs)),
           !.waited = @ + SettleMs]

InjectsAtEveryOther(i) == i % 2 = 0

\* i % 3 === 0
InjectsAt(i) == i % InjectEvery = 0

\* scrollContainer.evaluate(el => el.scrollTop += scrollAmount, 50)
ScrollStep ==
    /\ scenario.pc = "scroll"
    /\ scenario' = [scenario EXCEPT
           !.pc = IF InjectsAt(scenario.i) THEN "inject" ELSE "scrollWait",
           !.issued = Issue([op |-> "scrollBy", example |-> ExampleIndex,
                             amount |-> ScrollAmount])]

\* page.evaluate: a div appended to the container of index 0 among all
\* tui-scrollbar elements of the page.
InjectNode ==
    /\ scenario.pc = "inject"
    /\ scenario' = [scenario EXCEPT
           !.pc = "scrollWait",
           !.dynamicNodes = @ + 1,
           !.issued = Issue([op |-> "appendChild", container |-> 0,
                             iteration |-> scenario.i])]

\* page.waitForTimeout(8), then i++ and the loop condition.
ScrollWait ==
    /\ scenario.pc = "scrollWait"
    /\ scenario' = [scenario EXCEPT
           !.pc = IF scenario.i + 1 < ScrollIterations THEN "scroll" ELSE "addStyleTag",
           !.i = @ + 1,
           !.issued = Issue(WaitForTimeout(ScrollWaitMs)),
           !.waited = @ + ScrollWaitMs]

\* page.addStyleTag(...), then `let j = 0` and the loop condition.
AddStyleTag ==
    /\ scenario.pc = "addStyleTag"
    /\ scenario' = [scenario EXCEPT
           !.pc = IF 0 < StyleIterations THEN "toggle" ELSE "examplePause",
           !.j = 0,
           !.issued = Issue([op |-> "addStyleTag"])]

\* page.evaluate: the class toggled on the descendants of the example's
\* scrollbar.
ToggleClasses ==
    /\ scenario.pc = "toggle"
    /\ scenario' = [scenario EXCEPT
           !.pc = "flip",
           !.issued = Issue([op |-> "toggleClasses", example |-> ExampleIndex])]

\* page.evaluate: --tui-perf-hue set to '340' when it reads '200', else to '200'.
FlipHue ==
    /\ scenario.pc = "flip"
    /\ scenario' = [scenario EXCEPT
           !.pc = "styleWait",
           !.hue = IF @ = "200" THEN "340" ELSE "200",
           !.issued = Issue([op |-> "flipHue"])]

\* page.waitForTimeout(30), then j++ and the loop condition.
StyleWait ==
    /\ scenario.pc = "styleWait"
    /\ scenario' = [scenario EXCEPT
           !.pc = IF scenario.j + 1 < StyleIterations THEN "toggle" ELSE "examplePause",
           !.j = @ + 1,
           !.issued = Issue(WaitForTimeout(StyleWaitMs)),
           !.waited = @ + StyleWaitMs]

\* page.waitForTimeout(50), then the next of exampleIndices.
ExamplePause ==
    /\ scenario.pc = "examplePause"
    /\ scenario' = [scenario EXCEPT
           !.pc = IF scenario.example < Len(exampleIndices) THEN "scrollIntoView" ELSE "done",
           !.example = @ + 1,
           !.issued = Issue(WaitForTimeout(ExamplePauseMs)),
           !.waited = @ + ExamplePauseMs]

\* The pauses of one run of the scenario.
ScenarioPauseMs ==
    Len(exampleIndices) * (SettleMs + ScrollIterations * ScrollWaitMs
                           + StyleIterations * StyleWaitMs + ExamplePauseMs)

-----------------------------------------------------------------------------
(* State shared by the suite actions *)

cfgVars == <<mode, browserName, runsPerVariant, enforce, limits>>

genVars == <<added, valueLists, catalog, loaded, input, output, page, scenario, timing>>

captureVars == <<client, events, hist>>

Upd(f, w, v) == [f EXCEPT ![w] = v]

NoClient ==
    [state |-> "none", tracing |-> FALSE, onData |-> FALSE,
     onComplete |-> FALSE, endSent |-> FALSE, open |-> 0]

NoHist ==
    [pushed |-> <<>>, log |-> <<>>, failed |-> "none", outcomes |-> <<>>,
     timedOut |-> "no", gated |-> {}]

\* hist[w].gated holds the tests run by the worker whose sample gate passed;
\* it is kept for the whole suite run.

\* The history of a capture that starts: the trial outcomes are kept.
NewCapture(h) == [h EXCEPT !.pushed = <<>>, !.log = <<>>, !.failed = "none"]

Failed == [ok |-> FALSE]

Succeeded(metrics) == [ok |-> TRUE, metrics |-> metrics]

\* Positions inside the body of a variant test (and its beforeEach hook).
BodyPcs ==
    {"beforeEach", "apply", "loop", "capture", "throttle", "settle", "collect",
     "start", "scenario", "stop", "await", "detach", "return", "catch", "pause",
     "gate", "store", "limits"}

\* Positions inside the trial loop.
TrialLoopPcs == BodyPcs \ {"beforeEach", "apply", "gate", "store", "limits"}

Tests == DOMAIN testStatus

Pending == {i \in Tests : testStatus[i] = "pending"}

\* The variant a worker's current test was registered for.
Variant(w) == TEST_VARIANTS[cur[w]]

\* The browsers of the Playwright projects.
BrowserNames == {"chromium", "firefox", "webkit"}

SuiteInitUnder(modes, maxRuns, tests, envs) ==
    /\ mode \in modes
    /\ browserName \in BrowserNames
    /\ runsPerVariant \in 0..maxRuns
    /\ enforce \in BOOLEAN
    /\ \E env \in envs : limits = LIMITS(env)
    /\ testStatus = [i \in 1..tests |-> "pending"]
    /\ pc = [w \in Workers |-> "unspawned"]
    /\ cur = [w \in Workers |-> 0]
    /\ run = [w \in Workers |-> 0]
    /\ runs = [w \in Workers |-> <<>>]
    /\ results = [w \in Workers |-> EmptyMap]
    /\ client = [w \in Workers |-> NoClient]
    /\ events = [w \in Workers |-> <<>>]
    /\ hist = [w \in Workers |-> NoHist]
    /\ file = NoFile
    /\ saves = 0

\* The suite before its first test, the ceilings at their defaults.
SuiteInitWith(modes, maxRuns, tests) ==
    SuiteInitUnder(modes, maxRuns, tests, {[TUI_PERF_MAX_LAYOUT_COUNT |-> ""]})

GenIdle ==
    /\ added = <<>>
    /\ valueLists = [raf |-> <<>>, debounce |-> <<>>, throttle |-> <<>>]
    /\ catalog = <<>>
    /\ loaded = FALSE
    /\ page = NoPage
    /\ scenario = NoScenario
    /\ timing = NoTiming
    /\ input = <<>>
    /\ output = <<>>

-----------------------------------------------------------------------------
(* The runner: which worker process runs which test, and the hooks.          *)
(* Serial mode: the describe block is one group, run in order in one worker; *)
(* after a failure the rest of the group is skipped.  Parallel mode: every   *)
(* test is a group of its own, given to any free worker process, and runs    *)
(* the hooks for itself; module state is per process, and a worker process   *)
(* is replaced by a fresh one after a failed test.                           *)

\* A worker takes the next test of the file.
PickTest(w) ==
    /\ pc[w] \in {"unspawned", "idle"}
    /\ Pending # {}
    /\ mode = "serial" => \A v \in Workers \ {w} : pc[v] = "unspawned"
    /\ LET i == CHOOSE i \in Pending : \A j \in Pending : i <= j
       IN  /\ testStatus' = Upd(testStatus, i, "running")
           /\ cur' = Upd(cur, w, i)
    /\ pc' = Upd(pc, w, "beforeEach")
    /\ UNCHANGED <<cfgVars, run, runs, results, captureVars, file, saves, genVars>>

\* The test ends as failed: an expect that threw, an error that escaped, a timeout.
FailTest(w) ==
    /\ testStatus' = [i \in Tests |->
                         IF i = cur[w] THEN "failed"
                         ELSE IF mode = "serial" /\ testStatus[i] = "pending" THEN "skipped"
                         ELSE testStatus[i]]
    /\ pc' = Upd(pc, w, "afterAll")

\* The test ends as passed; the group's afterAll follows its last test.
PassTest(w) ==
    /\ testStatus' = Upd(testStatus, cur[w], "passed")
    /\ pc' = Upd(pc, w, IF mode = "serial" /\ Pending # {} THEN "idle" ELSE "afterAll")

\* test.skip(condition, ...) with a true condition inside a hook: the test
\* ends as skipped, which is not a failure; the run goes on as after a pass.
SkipTest(w) ==
    /\ testStatus' = Upd(testStatus, cur[w], "skipped")
    /\ pc' = Upd(pc, w, IF mode = "serial" /\ Pending # {} THEN "idle" ELSE "afterAll")

\* browserName !== 'chromium'
SkipsOn(name) == name # "chromium"

\* test.beforeEach: test.skip off Chromium, else page.goto and waitForLoadState.
BeforeEach(w) ==
    /\ pc[w] = "beforeEach"
    /\ IF SkipsOn(browserName)
       THEN SkipTest(w)
       ELSE \/ pc' = Upd(pc, w, "apply") /\ UNCHANGED testStatus
            \/ FailTest(w)
    /\ UNCHANGED <<cfgVars, cur, run, runs, results, captureVars, file, saves, genVars>>

\* The statements from the summary to the end of the body have no await: once
\* the gate has passed they run to the end of the body in one turn.
SyncPcs == {"store", "limits"}

\* test.setTimeout(120000): the test is stopped at whichever await it is
\* suspended on and ends as failed; hist[w].timedOut records where it was.
Timeout(w) ==
    /\ pc[w] \in BodyPcs \ SyncPcs
    /\ FailTest(w)
    /\ hist' = Upd(hist, w, [hist[w] EXCEPT !.timedOut =
                    IF pc[w] \in TrialLoopPcs THEN "trials" ELSE "other"])
    /\ UNCHANGED <<cfgVars, cur, run, runs, results, client, events, file, saves, genVars>>

\* ResultsManager.saveResults, called by test.afterAll in the worker's process.
saveResults(w) ==
    /\ file' = Written(aggregatedResults(results[w], runsPerVariant))
    /\ saves' = saves + 1

AfterAll(w) ==
    /\ pc[w] = "afterAll"
    /\ saveResults(w)
    /\ IF testStatus[cur[w]] = "failed"
       THEN /\ pc' = Upd(pc, w, "unspawned")
            /\ results' = Upd(results, w, EmptyMap)
            /\ client' = Upd(client, w, NoClient)
       ELSE /\ pc' = Upd(pc, w, "idle")
            /\ UNCHANGED <<results, client>>
    /\ UNCHANGED <<cfgVars, testStatus, cur, run, runs, events, hist, genVars>>

-----------------------------------------------------------------------------
(* The body of a variant test *)

\* PerformanceMeasurer.applyVariantConfig, then `const runs = []` and `run = 0`.
\* A reload that never settles is an error that fails the test.
ApplyVariantConfig(w) ==
    /\ pc[w] = "apply"
    /\ \/ /\ pc' = Upd(pc, w, "loop")
          /\ run' = Upd(run, w, 0)
          /\ runs' = Upd(runs, w, <<>>)
          /\ hist' = Upd(hist, w, [NoHist EXCEPT !.gated = hist[w].gated])
          /\ UNCHANGED testStatus
       \/ FailTest(w) /\ UNCHANGED <<run, runs, hist>>
    /\ UNCHANGED <<cfgVars, cur, results, client, events, file, saves, genVars>>

\* The loop condition `run < CONFIG.runsPerVariant`.
LoopHead(w) ==
    /\ pc[w] = "loop"
    /\ pc' = Upd(pc, w, IF run[w] < runsPerVariant THEN "capture" ELSE "gate")
    /\ UNCHANGED <<cfgVars, testStatus, cur, run, runs, results, captureVars,
                   file, saves, genVars>>

\* The expect(...).toBeGreaterThanOrEqual(0) checks on a trial's metrics.
SanityChecksPass(metrics) ==
    /\ metrics.layoutCount >= 0
    /\ metrics.layoutDuration >= 0
    /\ metrics.recalcStyleCount >= 0
    /\ metrics.recalcStyleDuration >= 0

TrialSkipsPush(w) ==
    /\ pc[w] = "return"
    /\ pc' = Upd(pc, w, "pause")
    /\ hist' = Upd(hist, w, [hist[w] EXCEPT
                    !.log = Append(@, "return"),
                    !.outcomes = Append(@, Succeeded(extractMetricsExact(events[w])))])
    /\ UNCHANGED <<cfgVars, testStatus, cur, run, runs, results, client, events,
                   file, saves, genVars>>

\* The capture returned: extractMetrics, runs.push, the sanity checks.
TrialSucceeds(w) ==
    /\ pc[w] = "return"
    /\ LET metrics == extractMetricsExact(events[w])
       IN  /\ runs' = Upd(runs, w, Append(runs[w], metrics))
           /\ pc' = Upd(pc, w, IF SanityChecksPass(metrics) THEN "pause" ELSE "catch")
           /\ hist' = Upd(hist, w, [hist[w] EXCEPT
                           !.log = Append(@, "return"),
                           !.outcomes = Append(@, Succeeded(metrics))])
    /\ UNCHANGED <<cfgVars, testStatus, cur, run, results, client, events,
                   file, saves, genVars>>

\* The catch branch: the error is logged (`Run ... failed`) and dropped.
TrialCatch(w) ==
    /\ pc[w] = "catch"
    /\ pc' = Upd(pc, w, "pause")
    /\ hist' = Upd(hist, w, [hist[w] EXCEPT !.outcomes = Append(@, Failed)])
    /\ UNCHANGED <<cfgVars, testStatus, cur, run, runs, results, client, events,
                   file, saves, genVars>>

\* page.waitForTimeout(200) and the loop's run++.
TrialPause(w) ==
    /\ pc[w] = "pause"
    /\ run' = Upd(run, w, run[w] + 1)
    /\ pc' = Upd(pc, w, "loop")
    /\ UNCHANGED <<cfgVars, testStatus, cur, runs, results, captureVars,
                   file, saves, genVars>>

GateAtLeast(collected, n) == collected * 10 >= n * 8

\* runs.length > CONFIG.runsPerVariant * 0.8, in tenths.
GatePasses(collected, n) == collected * 10 > n * 8

\* expect(runs.length).toBeGreaterThan(CONFIG.runsPerVariant * 0.8)
SampleGate(w) ==
    /\ pc[w] = "gate"
    /\ IF GatePasses(Len(runs[w]), runsPerVariant)
       THEN /\ pc' = Upd(pc, w, "store")
            /\ hist' = Upd(hist, w, [hist[w] EXCEPT !.gated = @ \cup {cur[w]}])
            /\ UNCHANGED testStatus
       ELSE FailTest(w) /\ UNCHANGED hist
    /\ UNCHANGED <<cfgVars, cur, run, runs, results, client, events, file, saves, genVars>>

TestResultOfFilteredRuns(w) ==
    [variant |-> Variant(w), runs |-> removeOutliers(runs[w]),
     summary |-> calculateStatistics(runs[w])]

\* The TestResult of the test body (its timestamp is left out).
TestResult(w) ==
    [variant |-> Variant(w), runs |-> runs[w], summary |-> calculateStatistics(runs[w])]

\* calculateStatistics, the result object and ResultsManager.addResult.
StoreResult(w) ==
    /\ pc[w] = "store"
    /\ results' = Upd(results, w, addResult(results[w], TestResult(w)))
    /\ pc' = Upd(pc, w, "limits")
    /\ UNCHANGED <<cfgVars, testStatus, cur, run, runs, captureVars, file, saves, genVars>>

\* mean >= limit as the log-only branch evaluates it.
AtOrAboveLimit(mean, limit) ==
    /\ mean[2] # 0
    /\ limit # NaN
    /\ mean[1] >= limit[1] * mean[2]

\* mean < limit as expect(mean).toBeLessThan(limit) evaluates it, the mean being
\* the fraction <<num, den>>: a comparison with NaN is false.
BelowLimit(mean, limit) ==
    /\ mean[2] # 0
    /\ limit # NaN
    /\ mean[1] < limit[1] * mean[2]

\* The regression checks: under ENFORCE_LIMITS the first expect that does not
\* hold fails the test; otherwise breaches are logged and the test goes on.
RegressionGate(w) ==
    /\ pc[w] = "limits"
    /\ LET summary == calculateStatistics(runs[w])
       IN  IF enforce /\ \E metric \in DOMAIN limits :
                            ~BelowLimit(summary[metric], limits[metric])
           THEN FailTest(w)
           ELSE PassTest(w)
    /\ UNCHANGED <<cfgVars, cur, run, runs, results, captureVars, file, saves, genVars>>

-----------------------------------------------------------------------------
(* PerformanceMeasurer.capturePerformanceTrace, one awaited step at a time.  *)
(* hist[w].log lists the capture's events in the order they happen,          *)
(* hist[w].pushed the trace events the driver has sent since Tracing.start,  *)
(* hist[w].failed the step of this capture that failed.                      *)

Logged(w, entries) == Upd(hist, w, [hist[w] EXCEPT !.log = @ \o entries])

\* A rejected await: the capture's promise rejects and control reaches the
\* catch of the trial loop.
Throw(w, step) ==
    /\ pc' = Upd(pc, w, "catch")
    /\ hist' = Upd(hist, w, [hist[w] EXCEPT !.failed = step])

\* setupTestEnvironment: page.context().newCDPSession(page)
NewCDPSession(w) ==
    /\ pc[w] = "capture"
    /\ \/ /\ client' = Upd(client, w, [NoClient EXCEPT !.state = "attached",
                                                     !.open = client[w].open + 1])
          /\ hist' = Upd(hist, w, NewCapture(hist[w]))
          /\ pc' = Upd(pc, w, "throttle")
       \/ /\ pc' = Upd(pc, w, "catch")
          /\ hist' = Upd(hist, w, [NewCapture(hist[w]) EXCEPT !.failed = "newCDPSession"])
          /\ UNCHANGED client
    /\ UNCHANGED <<cfgVars, testStatus, cur, run, runs, results, events,
                   file, saves, genVars>>

\* setupTestEnvironment: client.send('Emulation.setCPUThrottlingRate', {rate: 1})
SetCPUThrottlingRate(w) ==
    /\ pc[w] = "throttle"
    /\ \/ pc' = Upd(pc, w, "settle") /\ UNCHANGED hist
       \/ Throw(w, "setCPUThrottlingRate")
    /\ UNCHANGED <<cfgVars, testStatus, cur, run, runs, results, client, events,
                   file, saves, genVars>>

\* setupTestEnvironment: waitForLoadState('networkidle') and waitForTimeout(500)
Stabilize(w) ==
    /\ pc[w] = "settle"
    /\ \/ pc' = Upd(pc, w, "collect") /\ UNCHANGED hist
       \/ Throw(w, "waitForLoadState")
    /\ UNCHANGED <<cfgVars, testStatus, cur, run, runs, results, client, events,
                   file, saves, genVars>>

\* `const events = []` and client.on('Tracing.dataCollected', ...)
RegisterCollector(w) ==
    /\ pc[w] = "collect"
    /\ events' = Upd(events, w, <<>>)
    /\ client' = Upd(client, w, [client[w] EXCEPT !.onData = TRUE])
    /\ pc' = Upd(pc, w, "start")
    /\ UNCHANGED <<cfgVars, testStatus, cur, run, runs, results, hist,
                   file, saves, genVars>>

\* await client.send('Tracing.start', ...)
StartTracing(w) ==
    /\ pc[w] = "start"
    /\ \/ /\ client' = Upd(client, w, [client[w] EXCEPT !.tracing = TRUE])
          /\ pc' = Upd(pc, w, "scenario")
          /\ UNCHANGED hist
       \/ Throw(w, "Tracing.start") /\ UNCHANGED client
    /\ UNCHANGED <<cfgVars, testStatus, cur, run, runs, results, events,
                   file, saves, genVars>>

\* await this.executeScrollScenario(page)
ExecuteScrollScenario(w) ==
    /\ pc[w] = "scenario"
    /\ \/ pc' = Upd(pc, w, "stop") /\ UNCHANGED hist
       \/ Throw(w, "executeScrollScenario")
    /\ UNCHANGED <<cfgVars, testStatus, cur, run, runs, results, client, events,
                   file, saves, genVars>>

StopTracingWithoutAwait(w) ==
    /\ pc[w] = "stop"
    /\ client' = Upd(client, w, [client[w] EXCEPT !.endSent = TRUE])
    /\ hist' = Logged(w, <<"stop">>)
    /\ pc' = Upd(pc, w, "detach")
    /\ UNCHANGED <<cfgVars, testStatus, cur, run, runs, results, events,
                   file, saves, genVars>>

\* The executor of the awaited promise: client.once('Tracing.tracingComplete',
\* resolve), then client.send('Tracing.end').  The promise the send returns is
\* dropped: when the request fails nothing rejects the awaited promise.
StopTracing(w) ==
    /\ pc[w] = "stop"
    /\ \/ /\ client' = Upd(client, w, [client[w] EXCEPT !.onComplete = TRUE,
                                                       !.endSent = TRUE])
          /\ hist' = Logged(w, <<"listen", "stop">>)
       \/ /\ client' = Upd(client, w, [client[w] EXCEPT !.onComplete = TRUE])
          /\ hist' = Upd(hist, w, [hist[w] EXCEPT !.log = @ \o <<"listen">>,
                                                  !.failed = "Tracing.end"])
    /\ pc' = Upd(pc, w, "await")
    /\ UNCHANGED <<cfgVars, testStatus, cur, run, runs, results, events,
                   file, saves, genVars>>

\* await client.detach()
Detach(w) ==
    /\ pc[w] = "detach"
    /\ \/ /\ client' = Upd(client, w, [client[w] EXCEPT !.state = "detached",
                                                       !.onData = FALSE,
                                                       !.open = @ - 1])
          /\ hist' = Logged(w, <<"detach">>)
          /\ pc' = Upd(pc, w, "return")
       \/ Throw(w, "detach") /\ UNCHANGED client
    /\ UNCHANGED <<cfgVars, testStatus, cur, run, runs, results, events,
                   file, saves, genVars>>

-----------------------------------------------------------------------------
(* The tracing driver (the browser side of the CDP session) *)

TimelineLayout ==
    [name |-> "Layout", ts |-> 1, dur |-> 2000, cat |-> "devtools.timeline"]

TimelineRecalc ==
    [name |-> "UpdateLayoutTree", ts |-> 2, dur |-> 500, cat |-> "blink,devtools.timeline"]

UserTiming == [name |-> "mark", ts |-> 3, cat |-> "blink.user_timing"]

\* Messages of Tracing.dataCollected the driver may push; the last has no value.
SampleData ==
    {[value |-> <<TimelineLayout>>],
     [value |-> <<TimelineRecalc, UserTiming>>],
     [other |-> 0]}

\* The events a message carries.
Carried(data) == IF Has(data, "value") THEN data.value ELSE <<>>

OnDataCollectedPrepends(evs, data) ==
    IF Has(data, "value") THEN data.value \o evs ELSE evs

\* The listener of Tracing.dataCollected.
OnDataCollected(evs, data) ==
    IF Has(data, "value") THEN evs \o data.value ELSE evs

\* The driver pushes a batch while tracing runs; it reaches the listener if one
\* is registered on the attached session.
DataCollected(w) ==
    /\ client[w].tracing
    /\ client[w].state = "attached"
    /\ pc[w] \in {"scenario", "stop", "await"}
    /\ Len(hist[w].pushed) < MaxBatches
    /\ \E data \in SampleData :
        /\ hist' = Upd(hist, w, [hist[w] EXCEPT !.pushed = Append(@, Carried(data))])
        /\ events' = Upd(events, w, IF client[w].onData
                                    THEN OnDataCollected(events[w], data)
                                    ELSE events[w])
    /\ UNCHANGED <<cfgVars, testStatus, pc, cur, run, runs, results, client,
                   file, saves, genVars>>

\* The driver answers Tracing.end with the one-shot Tracing.tracingComplete; the
\* `once` listener resolves the awaited promise.
TracingComplete(w) ==
    /\ client[w].tracing
    /\ client[w].endSent
    /\ client[w].state = "attached"
    /\ client' = Upd(client, w, [client[w] EXCEPT !.tracing = FALSE, !.onComplete = FALSE])
    /\ hist' = Logged(w, <<"complete">>)
    /\ pc' = Upd(pc, w, IF client[w].onComplete /\ pc[w] = "await" THEN "detach" ELSE pc[w])
    /\ UNCHANGED <<cfgVars, testStatus, cur, run, runs, results, events,
                   file, saves, genVars>>

RECURSIVE Flatten(_)
Flatten(batches) ==
    IF batches = <<>> THEN <<>> ELSE Head(batches) \o Flatten(Tail(batches))

-----------------------------------------------------------------------------
(* Spec: one variant test, every capture step *)

Init ==
    /\ SuiteInitWith({"serial"}, MaxRuns, 1)
    /\ GenIdle

Runner(w) ==
    \/ PickTest(w)
    \/ BeforeEach(w)
    \/ Timeout(w)
    \/ AfterAll(w)

TestBody(w) ==
    \/ ApplyVariantConfig(w)
    \/ LoopHead(w)
    \/ TrialSucceeds(w)
    \/ TrialCatch(w)
    \/ TrialPause(w)
    \/ SampleGate(w)
    \/ StoreResult(w)
    \/ RegressionGate(w)

Capture(w) ==
    \/ NewCDPSession(w)
    \/ SetCPUThrottlingRate(w)
    \/ Stabilize(w)
    \/ RegisterCollector(w)
    \/ StartTracing(w)
    \/ ExecuteScrollScenario(w)
    \/ StopTracing(w)
    \/ Detach(w)

Driver(w) ==
    \/ DataCollected(w)
    \/ TracingComplete(w)

Next == \E w \in Workers : Runner(w) \/ TestBody(w) \/ Capture(w) \/ Driver(w)

Spec == Init /\ [][Next]_vars

-----------------------------------------------------------------------------
(* SuiteSpec: the suite on several worker processes.  A capture is one step  *)
(* with the outcomes the step-by-step capture has: it returns the collected  *)
(* events, it throws, or it stays suspended on the completion promise.       *)

SampleTraces == {<<TimelineLayout, TimelineRecalc, UserTiming>>}

CaptureTrace(w) ==
    /\ pc[w] = "capture"
    /\ \/ \E trace \in SampleTraces :
            /\ events' = Upd(events, w, trace)
            /\ hist' = Upd(hist, w, [NewCapture(hist[w]) EXCEPT
                            !.pushed = <<trace>>,
                            !.log = <<"listen", "stop", "complete", "detach">>])
            /\ pc' = Upd(pc, w, "return")
       \/ /\ hist' = Upd(hist, w, [NewCapture(hist[w]) EXCEPT !.failed = "capture"])
          /\ pc' = Upd(pc, w, "catch")
          /\ UNCHANGED events
       \/ /\ hist' = Upd(hist, w, [NewCapture(hist[w]) EXCEPT !.log = <<"listen">>,
                                                               !.failed = "Tracing.end"])
          /\ pc' = Upd(pc, w, "await")
          /\ UNCHANGED events
    /\ UNCHANGED <<cfgVars, testStatus, cur, run, runs, results, client,
                   file, saves, genVars>>

SuiteInit ==
    /\ SuiteInitWith({"serial", "parallel"}, MaxSuiteRuns, MaxTests)
    /\ GenIdle

SuiteNext == \E w \in Workers : Runner(w) \/ TestBody(w) \/ CaptureTrace(w)

SuiteSpec == SuiteInit /\ [][SuiteNext]_vars

\* Every selected test has ended and every hook has run.
SuiteDone ==
    /\ \A i \in Tests : testStatus[i] \in {"passed", "failed", "skipped"}
    /\ \A w \in Workers : pc[w] \in {"unspawned", "idle"}

-----------------------------------------------------------------------------
(* LimitsSpec: the end of a variant test (summary, addResult, regression     *)
(* checks) for arbitrary settings of the TUI_PERF_MAX_* and TUI_PERF_ENFORCE *)
(* variables and several trial lists.                                        *)

\* Values of a TUI_PERF_MAX_* variable: unset, numbers, a mistyped value.
SampleCeilings == {"", "0", "1", "3", "abc"}

SampleEnvs ==
    [TUI_PERF_MAX_LAYOUT_COUNT : SampleCeilings,
     TUI_PERF_MAX_LAYOUT_MS : SampleCeilings,
     TUI_PERF_MAX_RECALC_COUNT : SampleCeilings,
     TUI_PERF_MAX_RECALC_MS : SampleCeilings,
     TUI_PERF_ENFORCE : {"", "1", "true"}]

Metrics(layoutCount, layoutDuration, recalcStyleCount, recalcStyleDuration) ==
    [layoutCount |-> layoutCount, recalcStyleCount |-> recalcStyleCount,
     layoutDuration |-> layoutDuration, recalcStyleDuration |-> recalcStyleDuration]

\* Trial lists with means 0; 1, 1 ms, 3, 0.5 ms; 1.5, 3 ms, 3, 1.5 ms.
SampleTrialLists ==
    {<<Metrics(0, 0, 0, 0)>>,
     <<Metrics(1, 1000, 3, 500)>>,
     <<Metrics(1, 2000, 2, 500), Metrics(2, 4000, 4, 2500)>>}

LimitsProcess == "w1"

\* The trial loop of the only test is over with every trial collected.
LimitsInit ==
    /\ mode = "serial"
    /\ browserName = "chromium"
    /\ \E env \in SampleEnvs :
          /\ enforce = ENFORCE_LIMITS(env)
          /\ limits = LIMITS(env)
    /\ testStatus = <<"running">>
    /\ pc = [w \in Workers |-> IF w = LimitsProcess THEN "gate" ELSE "unspawned"]
    /\ cur = [w \in Workers |-> IF w = LimitsProcess THEN 1 ELSE 0]
    /\ \E trials \in SampleTrialLists :
          /\ runsPerVariant = Len(trials)
          /\ run = [w \in Workers |-> IF w = LimitsProcess THEN Len(trials) ELSE 0]
          /\ runs = [w \in Workers |-> IF w = LimitsProcess THEN trials ELSE <<>>]
          /\ hist = [w \in Workers |->
                        IF w = LimitsProcess
                        THEN [NoHist EXCEPT !.outcomes =
                                 [k \in 1..Len(trials) |-> Succeeded(trials[k])]]
                        ELSE NoHist]
    /\ results = [w \in Workers |-> EmptyMap]
    /\ client = [w \in Workers |-> NoClient]
    /\ events = [w \in Workers |-> <<>>]
    /\ file = NoFile
    /\ saves = 0
    /\ GenIdle

LimitsNext == \E w \in Workers : SampleGate(w) \/ StoreResult(w) \/ RegressionGate(w)

LimitsSpec == LimitsInit /\ [][LimitsNext]_vars

-----------------------------------------------------------------------------
(* StoreSpec: ResultsManager.addResult applied to arbitrary results in one   *)
(* process                                                                   *)

SuiteIdle ==
    /\ mode = "serial"
    /\ browserName = "chromium"
    /\ runsPerVariant = 0
    /\ enforce = FALSE
    /\ limits = LIMITS(NoEnv)
    /\ testStatus = <<>>
    /\ pc = [w \in Workers |-> "unspawned"]
    /\ cur = [w \in Workers |-> 0]
    /\ run = [w \in Workers |-> 0]
    /\ runs = [w \in Workers |-> <<>>]
    /\ results = [w \in Workers |-> EmptyMap]
    /\ client = [w \in Workers |-> NoClient]
    /\ events = [w \in Workers |-> <<>>]
    /\ hist = [w \in Workers |-> NoHist]
    /\ file = NoFile
    /\ saves = 0

StoreProcess == "w1"

SampleRuns ==
    {<<extractMetricsExact(<<TimelineLayout>>)>>, <<extractMetricsExact(<<TimelineRecalc>>)>>}

SampleResults ==
    {[variant |-> TEST_VARIANTS[i], runs |-> rs, summary |-> calculateStatistics(rs)] :
        i \in {1, 2, 7}, rs \in SampleRuns}

AddResultCall ==
    /\ Len(added) < MaxAdds
    /\ \E result \in SampleResults :
        /\ results' = Upd(results, StoreProcess, addResult(results[StoreProcess], result))
        /\ added' = Append(added, result)
    /\ UNCHANGED <<cfgVars, testStatus, pc, cur, run, runs, captureVars, file, saves,
                   valueLists, catalog, loaded, input, output, page, scenario, timing>>

StoreInit ==
    /\ SuiteIdle
    /\ GenIdle

StoreSpec == StoreInit /\ [][AddResultCall]_vars

-----------------------------------------------------------------------------
(* CatalogSpec: the catalog built from arbitrary value lists, and from the   *)
(* lists of the source                                                       *)

SampleValues == {0, 2}

RECURSIVE ListsUpTo(_)
ListsUpTo(n) ==
    IF n = 0 THEN {<<>>}
    ELSE LET shorter == ListsUpTo(n - 1)
         IN  shorter \cup {Append(l, v) : l \in shorter, v \in SampleValues}

SourceLists ==
    [raf |-> RAF_THROTTLE_VALUES, debounce |-> DEBOUNCE_VALUES,
     throttle |-> SCROLL_THROTTLE_VALUES]

CatalogInit ==
    /\ SuiteIdle
    /\ added = <<>>
    /\ valueLists \in {SourceLists} \cup
                      [raf : ListsUpTo(MaxListLen), debounce : ListsUpTo(MaxListLen),
                       throttle : ListsUpTo(MaxListLen)]
    /\ catalog = <<>>
    /\ loaded = FALSE
    /\ page = NoPage
    /\ scenario = NoScenario
    /\ timing = NoTiming
    /\ input = <<>>
    /\ output = <<>>

\* Evaluation of the module: TEST_VARIANTS is built and a test is registered for
\* each of its entries.
LoadModule ==
    /\ ~loaded
    /\ catalog' = Catalog(valueLists.raf, valueLists.debounce, valueLists.throttle)
    /\ loaded' = TRUE
    /\ UNCHANGED <<suiteVars, page, scenario, timing, added, valueLists, input, output>>

CatalogSpec == CatalogInit /\ [][LoadModule]_vars

-----------------------------------------------------------------------------
(* ExtractSpec: PerformanceMeasurer.extractMetrics applied to arbitrary      *)
(* event lists: to a list and its two parts, and to a list and one of its    *)
(* permutations.                                                             *)

TraceEvent(name, dur, cat) == [name |-> name, ts |-> 1, dur |-> dur, cat |-> cat]

\* Events of a trace: layout and style events of several durations, an event
\* without duration, events of other categories and without category, and an
\* event of another name.
SampleEvents ==
    {TraceEvent("Layout", 100, "devtools.timeline"),
     TraceEvent("Layout", 200, "devtools.timeline"),
     TraceEvent("Layout", 300, "blink,devtools.timeline"),
     [name |-> "RecalculateStyles", ts |-> 1, cat |-> "devtools.timeline"],
     TraceEvent("UpdateLayoutTree", 700, "devtools.timeline"),
     TraceEvent("Layout", 500, "devtools.timeline.async"),
     TraceEvent("Layout", 100, "blink.user_timing"),
     [name |-> "Layout", ts |-> 1, dur |-> 500],
     TraceEvent("Paint", 100, "devtools.timeline")}

\* The events the lists split in two parts are made of.
PartEvents ==
    {TraceEvent("Layout", 100, "devtools.timeline"),
     TraceEvent("Layout", 200, "devtools.timeline"),
     TraceEvent("Layout", 300, "blink,devtools.timeline"),
     TraceEvent("UpdateLayoutTree", 700, "devtools.timeline"),
     TraceEvent("Layout", 100, "blink.user_timing")}

\* The events the reordered lists are made of.
ReorderedEvents ==
    {TraceEvent("Layout", 100, "devtools.timeline"),
     TraceEvent("Layout", 200, "devtools.timeline"),
     TraceEvent("Layout", 300, "blink,devtools.timeline"),
     TraceEvent("Layout", 100, "blink.user_timing")}

RECURSIVE SeqsUpTo(_, _)
SeqsUpTo(S, n) ==
    IF n = 0 THEN {<<>>}
    ELSE LET shorter == SeqsUpTo(S, n - 1)
         IN  shorter \cup {Append(l, v) : l \in shorter, v \in S}

\* The lists that are a reordering of a list.
Reorderings(list) ==
    {[i \in 1..Len(list) |-> list[p[i]]] : p \in Permutations(1..Len(list))}

\* The calls made: on a list of any sample events (b is empty), on the two
\* parts of a list, on a list and a reordering of it.
ExtractInputs ==
    {[fn |-> "list", a |-> l, b |-> <<>>] : l \in SeqsUpTo(SampleEvents, MaxMixed)}
    \cup UNION {{[fn |-> "parts", a |-> SubSeq(l, 1, k), b |-> SubSeq(l, k + 1, Len(l))] :
                    k \in 0..Len(l)} : l \in SeqsUpTo(PartEvents, MaxEvents)}
    \cup UNION {{[fn |-> "reordered", a |-> l, b |-> r] : r \in Reorderings(l)} :
                    l \in SeqsUpTo(ReorderedEvents, MaxEvents)}

ExtractInit ==
    /\ SuiteIdle
    /\ added = <<>>
    /\ valueLists = [raf |-> <<>>, debounce |-> <<>>, throttle |-> <<>>]
    /\ catalog = <<>>
    /\ loaded = FALSE
    /\ page = NoPage
    /\ scenario = NoScenario
    /\ timing = NoTiming
    /\ input \in ExtractInputs
    /\ output = <<>>

\* The values returned for the list a ++ b, for a and for b.
Extracted(whole, a, b) ==
    <<[whole |-> extractMetrics(whole), a |-> extractMetrics(a), b |-> extractMetrics(b)]>>

\* extractMetrics is called on one list.
ExtractList ==
    /\ input.fn = "list"
    /\ output = <<>>
    /\ output' = Extracted(input.a, input.a, input.b)
    /\ UNCHANGED <<suiteVars, page, scenario, timing, added, valueLists, catalog, loaded, input>>

\* extractMetrics is called on a ++ b, on a and on b.
ExtractParts ==
    /\ input.fn = "parts"
    /\ output = <<>>
    /\ output' = Extracted(input.a \o input.b, input.a, input.b)
    /\ UNCHANGED <<suiteVars, page, scenario, timing, added, valueLists, catalog, loaded, input>>

\* extractMetrics is called on a list and on a reordering of it.
ExtractReordered ==
    /\ input.fn = "reordered"
    /\ output = <<>>
    /\ output' = Extracted(input.a, input.a, input.b)
    /\ UNCHANGED <<suiteVars, page, scenario, timing, added, valueLists, catalog, loaded, input>>

ExtractNext == ExtractList \/ ExtractParts \/ ExtractReordered

ExtractSpec == ExtractInit /\ [][ExtractNext]_vars

-----------------------------------------------------------------------------
(* StatsSpec: PerformanceMeasurer.calculateStatistics and removeOutliers     *)
(* applied to arbitrary trial lists.  Durations are exact thousandths.       *)

\* Layout durations of a trial: 10, 11, 12, 13 and 50 ms.
SampleDurations == {10000, 11000, 12000, 13000, 50000}

\* The trial lists: trial k has layoutCount k, which tells the trials of a
\* list apart, and one of the sample durations.
SampleTrials ==
    {[k \in 1..Len(durations) |-> Metrics(k, durations[k], 1, 500)] :
        durations \in SeqsUpTo(SampleDurations, MaxTrials)}

StatsInit ==
    /\ SuiteIdle
    /\ added = <<>>
    /\ valueLists = [raf |-> <<>>, debounce |-> <<>>, throttle |-> <<>>]
    /\ catalog = <<>>
    /\ loaded = FALSE
    /\ page = NoPage
    /\ scenario = NoScenario
    /\ timing = NoTiming
    /\ input \in {[fn |-> "statistics", runs |-> trials] : trials \in SampleTrials}
    /\ output = <<>>

\* calculateStatistics(runs), with the list its removeOutliers(runs) returns
\* and the argument array as the call leaves it.
CalculateStatistics ==
    /\ input.fn = "statistics"
    /\ output = <<>>
    /\ output' = <<[filteredRuns |-> removeOutliers(input.runs),
                    summary |-> calculateStatistics(input.runs),
                    runs |-> RunsAfterRemoveOutliers(input.runs)]>>
    /\ UNCHANGED <<suiteVars, page, scenario, timing, added, valueLists, catalog, loaded, input>>

StatsSpec == StatsInit /\ [][CalculateStatistics]_vars

-----------------------------------------------------------------------------
(* SummarySpec: calculateStatistics applied, in doubles, to trial lists:     *)
(* every list of up to MaxVaried of three sample trials and every list of    *)
(* up to MaxTrials copies of one sample trial.                               *)

\* A trial whose durations are those of one Layout and one RecalculateStyles
\* event of the given microseconds.
DoubleTrial(layoutCount, layoutMicros, recalcStyleCount, recalcMicros) ==
    [layoutCount |-> FromInteger(layoutCount),
     layoutDuration |-> DurationMs("double", layoutMicros),
     recalcStyleCount |-> FromInteger(recalcStyleCount),
     recalcStyleDuration |-> DurationMs("double", recalcMicros)]

SampleDoubleTrials ==
    {DoubleTrial(0, 0, 0, 0), DoubleTrial(3, 100, 7, 200), DoubleTrial(3, 700, 7, 1100),
     DoubleTrial(5, 10000, 2, 250), DoubleTrial(1, 50000, 1, 300)}

\* The trials the lists of unequal trials are made of.
VariedTrials ==
    {DoubleTrial(3, 100, 7, 200), DoubleTrial(3, 700, 7, 1100), DoubleTrial(1, 50000, 1, 300)}

ConstantLists ==
    {[k \in 1..n |-> trial] : n \in 1..MaxTrials, trial \in SampleDoubleTrials}

SummaryInit ==
    /\ SuiteIdle
    /\ added = <<>>
    /\ valueLists = [raf |-> <<>>, debounce |-> <<>>, throttle |-> <<>>]
    /\ catalog = <<>>
    /\ loaded = FALSE
    /\ page = NoPage
    /\ scenario = NoScenario
    /\ timing = NoTiming
    /\ input \in {[fn |-> "summary", runs |-> trials] :
                     trials \in SeqsUpTo(VariedTrials, MaxVaried) \cup ConstantLists}
    /\ output = <<>>

\* calculateStatistics(runs), with the list its removeOutliers(runs) returns.
Summarize ==
    /\ input.fn = "summary"
    /\ output = <<>>
    /\ output' = <<[filteredRuns |-> removeOutliersDouble(input.runs),
                    statistics |-> calculateStatisticsDouble(input.runs)]>>
    /\ UNCHANGED <<suiteVars, page, scenario, timing, added, valueLists, catalog, loaded, input>>

SummarySpec == SummaryInit /\ [][Summarize]_vars

-----------------------------------------------------------------------------
(* ConfigSpec: applyVariantConfig applied, several times over, to one page   *)
(* whose sessionStorage holds arbitrary flags at the start.                  *)

\* The configs of a baseline, an event-driven and a GPU variant of the
\* catalog, and two configs the TestVariant type allows beyond them.
SampleConfigs ==
    {TEST_VARIANTS[2].config, TEST_VARIANTS[7].config, TEST_VARIANTS[61].config,
     [debounceMs |-> 50, throttleMs |-> 4, scheduler |-> "raf"],
     [debounceMs |-> 60, throttleMs |-> 0, scheduler |-> "microtask",
      useGpuAcceleration |-> FALSE]}

\* What sessionStorage may hold before: any of the flags set to '1'.
SampleStorages == [FlagKeys -> {Null, Item("1")}]

ConfigInit ==
    /\ SuiteIdle
    /\ added = <<>>
    /\ valueLists = [raf |-> <<>>, debounce |-> <<>>, throttle |-> <<>>]
    /\ catalog = <<>>
    /\ loaded = FALSE
    /\ input = <<>>
    /\ output = <<>>
    /\ scenario = NoScenario
    /\ timing = NoTiming
    /\ page \in {[NoPage EXCEPT !.sessionStorage = storage, !.atStart = storage] :
                    storage \in SampleStorages}

ApplyConfig ==
    /\ Len(page.checks) < MaxApplies
    /\ \E config \in SampleConfigs : page' = applyVariantConfig(page, config)
    /\ UNCHANGED <<suiteVars, scenario, timing, added, valueLists, catalog, loaded,
                   input, output>>

ConfigSpec == ConfigInit /\ [][ApplyConfig]_vars

-----------------------------------------------------------------------------
(* ScenarioSpec: executeScrollScenario run MaxScenarioRuns times in a row on *)
(* one page, for any sample config applied to the page and either hue at the *)
(* start.                                                                    *)

ScenarioInit ==
    /\ SuiteIdle
    /\ added = <<>>
    /\ valueLists = [raf |-> <<>>, debounce |-> <<>>, throttle |-> <<>>]
    /\ catalog = <<>>
    /\ loaded = FALSE
    /\ input = <<>>
    /\ output = <<>>
    /\ page = NoPage
    /\ timing = NoTiming
    /\ scenario \in {ScenarioStart(config, 1, hue, 0) :
                        config \in SampleConfigs, hue \in {"200", "340"}}

\* The next trial of the variant calls executeScrollScenario on the same page.
NextScenarioRun ==
    /\ scenario.pc = "done"
    /\ scenario.number < MaxScenarioRuns
    /\ scenario' = ScenarioStart(scenario.config, scenario.number + 1, scenario.hue,
                                 scenario.dynamicNodes)

ScenarioNext ==
    /\ \/ ScrollIntoView \/ Settle \/ ScrollStep \/ InjectNode \/ ScrollWait
       \/ AddStyleTag \/ ToggleClasses \/ FlipHue \/ StyleWait \/ ExamplePause
       \/ NextScenarioRun
    /\ UNCHANGED <<suiteVars, page, timing, added, valueLists, catalog, loaded,
                   input, output>>

ScenarioSpec == ScenarioInit /\ [][ScenarioNext]_vars

-----------------------------------------------------------------------------
(* Properties of the variant test (Spec) *)

InTrialLoop(w) == pc[w] \in BodyPcs \ {"beforeEach", "apply"}

\* The metrics of the successful trials, in trial order.
RECURSIVE Successes(_)
Successes(outcomes) ==
    IF outcomes = <<>> THEN <<>>
    ELSE (IF Head(outcomes).ok THEN <<Head(outcomes).metrics>> ELSE <<>>)
         \o Successes(Tail(outcomes))

IsPrefix(s, t) == Len(s) <= Len(t) /\ SubSeq(t, 1, Len(s)) = s

CaptureOrder == <<"listen", "stop", "complete", "detach", "return">>

(* C1: the sample gate lets a variant through exactly when the number of     *)
(* collected trials is strictly greater than 0.8 * N; a variant that does    *)
(* not get through fails at the gate with nothing added to the store, and a  *)
(* result in the store always holds more than 0.8 * N trials.                *)
C1_GateStep(w) ==
    /\ (pc'[w] = "store") <=> (10 * Len(runs[w]) > 8 * runsPerVariant)
    /\ pc'[w] # "store" =>
          /\ testStatus'[cur[w]] = "failed"
          /\ pc'[w] = "afterAll"
          /\ results' = results

C1_StoredPassedGate ==
    \A w \in Workers : \A k \in 1..Len(results[w]) :
        10 * Len(results[w][k].value.runs) > 8 * runsPerVariant

\* The gate expression at the default N: 9 and 10 collected trials pass, 0..8 fail.
C1_GateAtDefaultRuns ==
    \A k \in 0..DefaultRuns : GatePasses(k, DefaultRuns) <=> k \in {9, 10}

C1_SampleGate ==
    /\ []C1_GateAtDefaultRuns
    /\ []C1_StoredPassedGate
    /\ [][\A w \in Workers : SampleGate(w) => C1_GateStep(w)]_vars

\* A variant with two trials, one of them collected, has failed and stored nothing.
C1_Witness ==
    \E w \in Workers :
        /\ runsPerVariant = 2
        /\ run[w] = 2
        /\ Len(runs[w]) = 1
        /\ pc[w] = "afterAll"
        /\ testStatus[cur[w]] = "failed"
        /\ results[w] = EmptyMap

(* C2: in the trial loop every trial index 0..N-1 gets exactly one capture   *)
(* attempt whatever fails: the loop is left only after N attempts, a failed  *)
(* attempt adds nothing to the trial list and a successful one appends its   *)
(* metrics, so the list is the successes in trial order.                     *)
C2_TrialLoop ==
    \A w \in Workers : InTrialLoop(w) =>
        /\ run[w] <= runsPerVariant
        /\ Len(hist[w].outcomes) = run[w] + (IF pc[w] = "pause" THEN 1 ELSE 0)
        /\ pc[w] \in {"gate", "store", "limits"} => Len(hist[w].outcomes) = runsPerVariant
        /\ runs[w] = Successes(hist[w].outcomes)

\* The loop is over after a failed trial followed by a successful one.
C2_Witness ==
    \E w \in Workers :
        /\ pc[w] = "gate"
        /\ Len(hist[w].outcomes) = 2
        /\ ~hist[w].outcomes[1].ok
        /\ hist[w].outcomes[2].ok
        /\ Len(runs[w]) = 1

(* C3: once a step of a capture has failed, the capture has ended with an    *)
(* error that the trial loop absorbs: the test is in the catch branch or     *)
(* past it, not suspended inside the capture.                                *)
C3_FailureEndsCapture ==
    \A w \in Workers :
        (pc[w] \in BodyPcs /\ hist[w].failed # "none") =>
            pc[w] \in {"catch", "pause", "loop", "capture", "gate", "store", "limits"}

(* C4: the events of a capture happen in the order listener registered,      *)
(* stop requested, completion received, session detached, list returned;     *)
(* the capture is past the await only after the completion signal, and the   *)
(* listener is registered whenever the signal can fire.                      *)
C4_CaptureOrder ==
    \A w \in Workers :
        /\ IsPrefix(hist[w].log, CaptureOrder)
        /\ pc[w] = "detach" => hist[w].log = SubSeq(CaptureOrder, 1, 3)
        /\ pc[w] = "return" => hist[w].log = SubSeq(CaptureOrder, 1, 4)
        /\ (client[w].endSent /\ client[w].tracing) => client[w].onComplete

\* A capture has returned its list to the trial loop.
C4_Witness ==
    \E w \in Workers :
        /\ pc[w] = "pause"
        /\ hist[w].log = CaptureOrder
        /\ client[w].state = "detached"

(* C5: the list a capture returns is the concatenation, in arrival order, of *)
(* the batches the driver pushed between Tracing.start and the completion    *)
(* signal, and the collector is registered whenever tracing runs.            *)
C5_EventsAreThePushedBatches ==
    \A w \in Workers :
        /\ pc[w] \in {"start", "scenario", "stop", "await", "detach", "return"} =>
              events[w] = Flatten(hist[w].pushed)
        /\ client[w].tracing => client[w].onData

\* A capture returns two different non-empty batches.
C5_Witness ==
    \E w \in Workers :
        /\ pc[w] = "return"
        /\ Len(hist[w].pushed) = 2
        /\ hist[w].pushed[1] # <<>>
        /\ hist[w].pushed[2] # <<>>
        /\ hist[w].pushed[1] # hist[w].pushed[2]

-----------------------------------------------------------------------------
(* Properties of the suite (SuiteSpec) *)

Ended(i) == testStatus[i] \in {"passed", "failed", "skipped"}

(* C6: saveResults (serialisation and summary table) runs exactly once per   *)
(* suite run, after every variant has ended, in serial and in parallel mode. *)
C6_SavedOnceAfterAllVariants ==
    /\ saves <= 1
    /\ saves >= 1 => \A i \in Tests : Ended(i)
    /\ SuiteDone => saves = 1

(* C7: the persisted artifact has metadata.variants equal to the catalog     *)
(* length and, once the suite is over, one entry for every variant that ran  *)
(* to a result, in serial and in parallel mode.                              *)
C7_ArtifactHasEveryResult ==
    file # NoFile =>
        /\ Content(file).metadata.variants = Len(TEST_VARIANTS)
        /\ \A j, k \in 1..Len(Content(file).results) :
               Content(file).results[j].key = Content(file).results[k].key => j = k
        /\ SuiteDone =>
              /\ \A i \in Tests : testStatus[i] = "passed" =>
                     MapHas(Content(file).results, TEST_VARIANTS[i].name)
              /\ Len(Content(file).results) <=
                     Cardinality({i \in Tests : testStatus[i] \in {"passed", "failed"}})

-----------------------------------------------------------------------------
(* Properties of the store (StoreSpec) *)

\* The index in `added` of the last result added under a name.
LastAdded(name) ==
    CHOOSE i \in 1..Len(added) :
        /\ added[i].variant.name = name
        /\ \A j \in (i + 1)..Len(added) : added[j].variant.name # name

(* C8: after any sequence of addResult calls the store holds, for each name  *)
(* added, exactly the result added last under that name, one entry per       *)
(* distinct name and nothing else.                                           *)
C8_LastWriterWins ==
    LET store == results[StoreProcess]
        names == {added[i].variant.name : i \in 1..Len(added)}
    IN  /\ MapKeys(store) = names
        /\ Len(store) = Cardinality(names)
        /\ \A k \in 1..Len(store) : store[k].value = added[LastAdded(store[k].key)]

\* A name was added twice with different results, another name in between.
C8_Witness ==
    /\ Len(added) = 3
    /\ added[1].variant.name = added[3].variant.name
    /\ added[1] # added[3]
    /\ added[2].variant.name # added[1].variant.name
    /\ Len(results[StoreProcess]) = 2
    /\ results[StoreProcess][1].value = added[3]

-----------------------------------------------------------------------------
(* Properties of the catalog (CatalogSpec) *)

(* C9: the catalog built from the value lists of the source has exactly 114  *)
(* entries and no two of them have the same name.                            *)
C9_CatalogSizeAndUniqueNames ==
    /\ Len(TEST_VARIANTS) = 114
    /\ UniqueNames(TEST_VARIANTS)
    /\ (loaded /\ valueLists = SourceLists) =>
          /\ catalog = TEST_VARIANTS
          /\ Len(catalog) = 114
          /\ Cardinality(Names(catalog)) = 114

\* The module has been evaluated with the value lists of the source.
C9_Witness ==
    /\ loaded
    /\ valueLists = SourceLists
    /\ Len(catalog) = 114

-----------------------------------------------------------------------------
(* Properties of the catalog order and of serial execution (SuiteSpec) *)

\* Entry k (from 0) of the baseline family.
IsBaseline(variant, k) ==
    /\ variant.config.scheduler = "raf"
    /\ variant.config.debounceMs = 0
    /\ Has(variant.config, "useOriginalScrollControls")
    /\ variant.config.useOriginalScrollControls = TRUE
    /\ variant.config.throttleMs = 2 * k

\* Entry k (from 0) of an event-driven family: debounce is the outer loop,
\* throttle the inner loop of 9 values.
IsEventDriven(variant, k, withGpu) ==
    /\ variant.config.scheduler = "microtask"
    /\ variant.config.debounceMs = 50 + 10 * (k \div 9)
    /\ variant.config.throttleMs = 2 * (k % 9)
    /\ Has(variant.config, "useGpuAcceleration") <=> withGpu
    /\ withGpu => variant.config.useGpuAcceleration = TRUE

CatalogFamilies ==
    /\ Len(TEST_VARIANTS) = 6 + 54 + 54
    /\ \A i \in 1..6 : IsBaseline(TEST_VARIANTS[i], i - 1)
    /\ \A i \in 7..60 : IsEventDriven(TEST_VARIANTS[i], i - 7, FALSE)
    /\ \A i \in 61..114 : IsEventDriven(TEST_VARIANTS[i], i - 61, TRUE)

Started(i) == testStatus[i] \in {"running", "passed", "failed"}

\* The test has run and did not fail: it passed, or its beforeEach hook
\* skipped it because of the browser.
RanWithoutFailure(i) ==
    \/ testStatus[i] = "passed"
    \/ testStatus[i] = "skipped" /\ SkipsOn(browserName)

(* C11: the catalog is 6 baseline variants (raf, debounce 0, original scroll *)
(* controls, throttle 0..10 by 2), then 54 event-driven variants without the *)
(* GPU flag (microtask, debounce 50..100 by 10 outer, throttle 0..16 by 2    *)
(* inner), then the same 54 with useGpuAcceleration true; in serial mode the *)
(* test of entry j starts only after the tests of all earlier entries ran.   *)
C11_CatalogOrderIsExecutionOrder ==
    /\ CatalogFamilies
    /\ mode = "serial" =>
          \A i, j \in Tests : (i < j /\ Started(j)) => RanWithoutFailure(i)
    /\ \A w \in Workers : pc[w] \in BodyPcs => testStatus[cur[w]] = "running"

\* In serial mode the second catalog entry is running after the first passed.
C11_Witness ==
    \E w \in Workers :
        /\ mode = "serial"
        /\ cur[w] = 2
        /\ pc[w] = "limits"
        /\ testStatus[1] = "passed"
        /\ Variant(w).name = "raf-t2ms"

-----------------------------------------------------------------------------
(* Properties of the regression checks (LimitsSpec) *)

\* Some summary mean is greater than or equal to its own ceiling.
CeilingReached(w) ==
    \E metric \in DOMAIN limits :
        AtOrAboveLimit(calculateStatistics(runs[w])[metric], limits[metric])

(* C12: the regression checks fail the variant if and only if enforcement is *)
(* enabled and at least one of the four summary means is greater than or     *)
(* equal to its own ceiling; with enforcement disabled no means and ceilings *)
(* make the variant fail.                                                    *)
C12_RegressionGate ==
    [][\A w \in Workers : RegressionGate(w) =>
          /\ (testStatus'[cur[w]] = "failed") <=> (enforce /\ CeilingReached(w))
          /\ ~enforce => testStatus'[cur[w]] = "passed"]_vars

-----------------------------------------------------------------------------
(* Properties of the test timeout (Spec) *)

\* The trials the store holds for the variant of the worker's test.
StoredTrials(w) ==
    LET store == results[w]
        name == Variant(w).name
    IN  IF MapHas(store, name)
        THEN (store[CHOOSE k \in 1..Len(store) : store[k].key = name]).value.runs
        ELSE <<>>

(* C13: when the test timeout fires during the trial loop the remaining      *)
(* trials are not run, and the trials collected so far are kept: the store   *)
(* that saveResults serialises holds them for the variant.                   *)
C13_TimeoutKeepsCollectedTrials ==
    \A w \in Workers :
        (pc[w] = "afterAll" /\ hist[w].timedOut = "trials") =>
            /\ Len(hist[w].outcomes) <= runsPerVariant
            /\ StoredTrials(w) = runs[w]

-----------------------------------------------------------------------------
(* Properties of the metric extractor (ExtractSpec) *)

\* The list extractMetrics was called on as a whole.
WholeList == IF input.fn = "parts" THEN input.a \o input.b ELSE input.a

RECURSIVE Times(_, _)
Times(k, x) == IF k = 0 THEN DoubleZero ELSE AddLimbs(x, Times(k - 1, x))

\* x and y differ by at most k units in the last place of the larger.
WithinUlps(x, y, k) ==
    \/ x = y
    \/ LET hi == IF DoubleAtMost(x, y) THEN y ELSE x
           lo == IF DoubleAtMost(x, y) THEN x ELSE y
       IN  DoubleAtMost(SubtractLimbs(hi, lo), Times(k, PowerOfTwo(TopBit(hi) - 52)))

\* The field-wise sum of two metrics records.
FieldwiseSum(m, n) ==
    [layoutCount |-> m.layoutCount + n.layoutCount,
     recalcStyleCount |-> m.recalcStyleCount + n.recalcStyleCount,
     layoutDuration |-> DoublePlus(m.layoutDuration, n.layoutDuration),
     recalcStyleDuration |-> DoublePlus(m.recalcStyleDuration, n.recalcStyleDuration)]

\* Equal counts, and durations that differ by at most k units in the last place.
EqualUpToRounding(m, n, k) ==
    /\ m.layoutCount = n.layoutCount
    /\ m.recalcStyleCount = n.recalcStyleCount
    /\ WithinUlps(m.layoutDuration, n.layoutDuration, k)
    /\ WithinUlps(m.recalcStyleDuration, n.recalcStyleDuration, k)

(* C14 as stated: for all event lists a and b, extractMetrics(a ++ b) equals *)
(* the field-wise sum of extractMetrics(a) and extractMetrics(b) in all four *)
(* fields.                                                                   *)
C14_ExactlyAdditive ==
    (output # <<>> /\ input.fn = "parts") =>
        output[1].whole = FieldwiseSum(output[1].a, output[1].b)

(* C14 amended: extractMetrics(a ++ b) equals the field-wise sum exactly in  *)
(* the two counts, and in the two durations up to the rounding of the        *)
(* additions: at most 2n units in the last place, n the number of events.    *)
C14_AdditiveUpToRounding ==
    (output # <<>> /\ input.fn = "parts") =>
        EqualUpToRounding(output[1].whole, FieldwiseSum(output[1].a, output[1].b),
                          2 * Len(WholeList))

\* Three layout events in two non-empty parts whose sum is not the whole's duration.
C14_Witness ==
    /\ output # <<>>
    /\ input.fn = "parts"
    /\ input.a # <<>>
    /\ input.b # <<>>
    /\ output[1].whole.layoutCount = 3
    /\ output[1].whole.layoutDuration #
           DoublePlus(output[1].a.layoutDuration, output[1].b.layoutDuration)

(* C15 as stated: for every event list and every permutation of it,         *)
(* extractMetrics returns the same four field values.                        *)
C15_ExactlyPermutationInvariant ==
    (output # <<>> /\ input.fn = "reordered") => output[1].a = output[1].b

(* C15 amended: for every event list and every permutation of it,            *)
(* extractMetrics returns the same two counts, and durations equal up to the *)
(* rounding of the additions: at most 2n units in the last place.            *)
C15_PermutationInvariantUpToRounding ==
    (output # <<>> /\ input.fn = "reordered") =>
        EqualUpToRounding(output[1].a, output[1].b, 2 * Len(WholeList))

\* Three layout events whose total depends on their order.
C15_Witness ==
    /\ output # <<>>
    /\ input.fn = "reordered"
    /\ output[1].a.layoutCount = 3
    /\ output[1].b.layoutCount = 3
    /\ output[1].a.layoutDuration # output[1].b.layoutDuration

\* The comma-separated names of a category string.
CategorySet(cat) ==
    LET cuts == {0, Len(cat) + 1} \cup {i \in 1..Len(cat) : SubSeq(cat, i, i) = ","}
    IN  {SubSeq(cat, i + 1, j - 1) :
            <<i, j>> \in {c \in cuts \X cuts :
                             c[1] < c[2] /\ \A k \in cuts : ~(c[1] < k /\ k < c[2])}}

IsTimelineEvent(event) ==
    Has(event, "cat") /\ "devtools.timeline" \in CategorySet(event.cat)

(* C16: extractMetrics counts an event only when 'devtools.timeline' is a    *)
(* member of its category set: the events whose categories are all other     *)
(* names, whatever they are, change none of the four fields.                 *)
C16_OnlyTimelineMembersCount ==
    output # <<>> =>
        output[1].whole = extractMetrics(SelectSeq(WholeList, IsTimelineEvent))

IsLayout(event) == event.name = "Layout"

IsRecalcStyle(event) == event.name \in {"RecalculateStyles", "UpdateLayoutTree"}

HasCategory(event) == Has(event, "cat")

\* The durations of the events in milliseconds, added in list order; an event
\* without duration adds 0.
RECURSIVE TotalMs(_, _)
TotalMs(total, evs) ==
    IF evs = <<>> THEN total
    ELSE TotalMs(DoublePlus(total, IF Has(Head(evs), "dur")
                                   THEN DoubleDivide(FromInteger(Head(evs).dur), 1000)
                                   ELSE DoubleZero),
                 Tail(evs))

ReferenceMetrics(evs) ==
    LET passing == SelectSeq(evs, PassesCategoryFilter)
        layouts == SelectSeq(passing, IsLayout)
        recalcs == SelectSeq(passing, IsRecalcStyle)
    IN  [layoutCount |-> Len(layouts),
         recalcStyleCount |-> Len(recalcs),
         layoutDuration |-> TotalMs(DoubleZero, layouts),
         recalcStyleDuration |-> TotalMs(DoubleZero, recalcs)]

(* C17: extractMetrics returns a value for every event list, events without  *)
(* category or duration included, and the value is the reference: among the  *)
(* events passing the category filter the counts of 'Layout' and of          *)
(* 'RecalculateStyles' or 'UpdateLayoutTree' events and the sums of their    *)
(* durations / 1000, no duration counting as 0; events of another name and   *)
(* events without category change nothing.                                   *)
C17_MatchesReference ==
    output # <<>> =>
        /\ output[1].whole = ReferenceMetrics(WholeList)
        /\ output[1].whole = extractMetrics(SelectSeq(WholeList, HasCategory))

\* A list of an event without category and a counted event without duration.
C17_Witness ==
    /\ output # <<>>
    /\ input.fn = "list"
    /\ Len(input.a) = 2
    /\ ~Has(input.a[1], "cat")
    /\ ~Has(input.a[2], "dur")
    /\ output[1].whole.layoutCount = 0
    /\ output[1].whole.recalcStyleCount = 1
    /\ output[1].whole.recalcStyleDuration = DoubleZero

-----------------------------------------------------------------------------
(* Properties of the trial metrics (Spec) *)

(* C18: every Metrics value produced for a trial, from the events the        *)
(* tracing driver delivered, has layoutCount, layoutDuration,                *)
(* recalcStyleCount and recalcStyleDuration greater than or equal to 0, so   *)
(* the sanity checks of the trial never send it to the catch branch.         *)
C18_TrialMetricsNonNegative ==
    \A w \in Workers :
        /\ \A k \in 1..Len(runs[w]) :
              /\ runs[w][k].layoutCount >= 0
              /\ runs[w][k].layoutDuration >= 0
              /\ runs[w][k].recalcStyleCount >= 0
              /\ runs[w][k].recalcStyleDuration >= 0
        /\ pc[w] = "catch" => hist[w].failed # "none"

\* A trial with layout and style events of positive duration was collected.
C18_Witness ==
    \E w \in Workers :
        /\ Len(runs[w]) >= 1
        /\ runs[w][1].layoutCount = 1
        /\ runs[w][1].layoutDuration > 0
        /\ runs[w][1].recalcStyleCount = 1
        /\ runs[w][1].recalcStyleDuration > 0

-----------------------------------------------------------------------------
(* Properties of the statistics (StatsSpec) *)

\* C19: removeOutliers returns its input unchanged, the same trials in the
\* same order, whenever the input has fewer than 4 trials.
C19_ShortListsUnchanged ==
    (output # <<>> /\ Len(input.runs) < 4) =>
        output[1].filteredRuns = input.runs

\* A list of three trials with a far duration went through the filter.
C19_Witness ==
    /\ output # <<>>
    /\ Len(input.runs) = 3
    /\ \E k \in 1..3 : input.runs[k].layoutDuration = 50000
    /\ \E k \in 1..3 : input.runs[k].layoutDuration = 10000
    /\ output[1].filteredRuns = input.runs

\* The layoutDuration values of a trial list, in the list's order.
LayoutDurations(rs) == [k \in 1..Len(rs) |-> rs[k].layoutDuration]

\* The value at zero-based index k of the values sorted ascending, as an
\* order statistic: fewer than k + 1 values lie below it and at least k + 1
\* values are at most it.
OrderStatistic(values, k) ==
    CHOOSE v \in {values[i] : i \in 1..Len(values)} :
        /\ Cardinality({i \in 1..Len(values) : values[i] < v}) <= k
        /\ Cardinality({i \in 1..Len(values) : values[i] <= v}) > k

Q1(values) == OrderStatistic(values, Len(values) \div 4)
Q3(values) == OrderStatistic(values, (3 * Len(values)) \div 4)
IQR(values) == Q3(values) - Q1(values)

\* Q1 - 1.5 * IQR <= v <= Q3 + 1.5 * IQR, both sides doubled.
WithinFences(v, values) ==
    /\ 2 * Q1(values) - 3 * IQR(values) <= 2 * v
    /\ 2 * v <= 2 * Q3(values) + 3 * IQR(values)

\* The positions of the trials the claim keeps.
KeptPositions(rs) ==
    {k \in 1..Len(rs) : WithinFences(rs[k].layoutDuration, LayoutDurations(rs))}

\* xs is the subsequence of rs at exactly the positions in keep.
IsSelection(xs, rs, keep) ==
    /\ Len(xs) = Cardinality(keep)
    /\ \A j \in 1..Len(xs) :
          \E k \in keep :
              /\ Cardinality({i \in keep : i <= k}) = j
              /\ xs[j] = rs[k]

ExampleDurations == <<10000, 12000, 11000, 13000, 50000>>

RECURSIVE IsSubsequence(_, _)
IsSubsequence(xs, ys) ==
    IF xs = <<>> THEN TRUE
    ELSE IF ys = <<>> THEN FALSE
    ELSE IF Head(xs) = Head(ys) THEN IsSubsequence(Tail(xs), Tail(ys))
    ELSE IsSubsequence(xs, Tail(ys))

\* The trial at position k of the input is in the filtered list (the trials
\* of a sample list differ in their layoutCount).
Retained(k) ==
    \E j \in 1..Len(output[1].filteredRuns) : output[1].filteredRuns[j] = input.runs[k]

\* C21: removeOutliers keeps or drops each trial as a whole: the output is a
\* subsequence of the input, two trials of equal layoutDuration are both
\* kept or both dropped, and the list passed in is left as it was.
C21_TrialsKeptWhole ==
    output # <<>> =>
        /\ IsSubsequence(output[1].filteredRuns, input.runs)
        /\ \A i, j \in 1..Len(input.runs) :
              input.runs[i].layoutDuration = input.runs[j].layoutDuration =>
                  (Retained(i) <=> Retained(j))
        /\ output[1].runs = input.runs

\* A list not in ascending order lost a trial and kept two of equal duration.
C21_Witness ==
    /\ output # <<>>
    /\ Len(output[1].filteredRuns) < Len(input.runs)
    /\ Len(output[1].filteredRuns) >= 2
    /\ \E i, j \in 1..Len(input.runs) :
          /\ i < j
          /\ input.runs[i].layoutDuration > input.runs[j].layoutDuration
    /\ \E i, j \in 1..Len(input.runs) :
          /\ i # j
          /\ input.runs[i].layoutDuration = input.runs[j].layoutDuration
          /\ Retained(i)

-----------------------------------------------------------------------------
(* Properties of the statistics in doubles (SummarySpec) *)

\* All trials of a non-empty list are the same trial.
IsConstantSample(rs) == rs # <<>> /\ \A k \in 1..Len(rs) : rs[k] = rs[1]

\* The mean of the field is the constant itself, its standard deviation is 0
\* and both bounds of its confidence interval are the constant.
CollapsesTo(statistics, metric, c) ==
    /\ statistics.summary[metric] = c
    /\ IsZeroDeviation(statistics.standardDeviation[metric])
    /\ IsPointInterval(statistics.confidence[metric], c)

\* C22: for a sample of n >= 1 identical trials calculateStatistics keeps
\* every trial and returns, for each of the four fields, a mean equal to the
\* constant, a standard deviation of 0 and a confidence interval whose two
\* bounds equal the constant.
C22_ConstantSampleCollapses ==
    (output # <<>> /\ input.fn = "summary" /\ IsConstantSample(input.runs)) =>
        /\ output[1].filteredRuns = input.runs
        /\ \A metric \in MetricNames :
              CollapsesTo(output[1].statistics, metric, input.runs[1][metric])

\* C22, amended: every trial is kept; the two count fields, and every field
\* of a sample of one or two trials, collapse to the constant exactly; the
\* mean of a duration is the constant up to the rounding of the n additions
\* and the division (2n units in the last place), and the field collapses
\* exactly when that mean is the constant itself.
C22_ConstantSampleUpToRounding ==
    (output # <<>> /\ input.fn = "summary" /\ IsConstantSample(input.runs)) =>
        /\ output[1].filteredRuns = input.runs
        /\ \A metric \in {"layoutCount", "recalcStyleCount"} :
              CollapsesTo(output[1].statistics, metric, input.runs[1][metric])
        /\ Len(input.runs) <= 2 =>
              \A metric \in MetricNames :
                  CollapsesTo(output[1].statistics, metric, input.runs[1][metric])
        /\ \A metric \in {"layoutDuration", "recalcStyleDuration"} :
              /\ WithinUlps(output[1].statistics.summary[metric], input.runs[1][metric],
                            2 * Len(input.runs))
              /\ CollapsesTo(output[1].statistics, metric, input.runs[1][metric])
                    <=> output[1].statistics.summary[metric] = input.runs[1][metric]

\* Three trials of 0.1 ms of layout were summarized: all are kept, the mean
\* of the counts is the count, the mean of the durations is not 0.1.
C22_Witness ==
    /\ output # <<>>
    /\ input.fn = "summary"
    /\ IsConstantSample(input.runs)
    /\ Len(input.runs) = 3
    /\ input.runs[1].layoutDuration = DurationMs("double", 100)
    /\ output[1].filteredRuns = input.runs
    /\ output[1].statistics.summary.layoutCount = input.runs[1].layoutCount
    /\ output[1].statistics.summary.layoutDuration # input.runs[1].layoutDuration
    /\ ~IsZeroDeviation(output[1].statistics.standardDeviation.layoutDuration)

-----------------------------------------------------------------------------
(* Properties of applyVariantConfig (ConfigSpec) *)

\* The flag snapshot a config is to leave, whatever was there before.
SnapshotOf(c) ==
    [debounce |-> Item(ToString(c.debounceMs)),
     scDebounce |-> Item(ToString(c.debounceMs)),
     throttle |-> Item(ToString(c.throttleMs)),
     scThrottle |-> Item(ToString(c.throttleMs)),
     rafMode |-> IF c.scheduler = "raf" THEN Item("1") ELSE Null,
     rafScrollControls |->
         IF c.scheduler = "raf" /\ Has(c, "useOriginalScrollControls")
                                /\ c.useOriginalScrollControls
         THEN Item("1") ELSE Null,
     transform |-> IF ~Has(c, "useGpuAcceleration") THEN Null
                   ELSE IF c.useGpuAcceleration THEN Item("1") ELSE Item("0"),
     noMutation |-> Null]

\* C23: the flag snapshot read back after applyVariantConfig(c) depends on c
\* alone, whatever flags were set before and whichever configs were applied
\* to the page earlier: it is the snapshot described for c, and the same
\* config applied twice reads back the same values.
C23_SnapshotDependsOnConfigAlone ==
    /\ \A i \in 1..Len(page.checks) :
          page.checks[i].configCheck = SnapshotOf(page.checks[i].config)
    /\ \A i, j \in 1..Len(page.checks) :
          page.checks[i].config = page.checks[j].config =>
              page.checks[i].configCheck = page.checks[j].configCheck

\* A page that had the transform, no-mutation and raf flags set was given a
\* baseline config with GPU-less scroll controls and then an event-driven
\* config without transform.
C23_Witness ==
    /\ Len(page.checks) = 2
    /\ page.atStart["tui-scrollbar-transform"] = Item("1")
    /\ page.atStart["tui-scrollbar-no-mutation"] = Item("1")
    /\ page.atStart["tui-scrollbar-raf"] = Item("1")
    /\ page.checks[1].config.scheduler = "raf"
    /\ page.checks[1].configCheck.rafScrollControls = Item("1")
    /\ page.checks[2].config.scheduler = "microtask"
    /\ ~Has(page.checks[2].config, "useGpuAcceleration")
    /\ page.checks[2].configCheck.rafMode = Null
    /\ page.checks[2].configCheck.transform = Null
    /\ page.checks[2].configCheck.debounce = Item("50")

-----------------------------------------------------------------------------
(* Properties of the scenario (ScenarioSpec) *)

\* The operations of one example as the script is described: a settle wait
\* of 100 ms, 15 scroll increments of 50 each followed by a wait of 8 ms,
\* with a node appended to the first container after the increments 0, 3, 6,
\* 9 and 12, one style injection, 5 class toggles with a property flip and a
\* wait of 30 ms each, and a wait of 50 ms.
ExpectedExample(index) ==
    <<[op |-> "scrollIntoViewIfNeeded", example |-> index], WaitForTimeout(100)>>
    \o Flatten([k \in 1..15 |->
           <<[op |-> "scrollBy", example |-> index, amount |-> 50]>>
           \o (IF k - 1 \in {0, 3, 6, 9, 12}
               THEN <<[op |-> "appendChild", container |-> 0, iteration |-> k - 1]>>
               ELSE <<>>)
           \o <<WaitForTimeout(8)>>])
    \o <<[op |-> "addStyleTag"]>>
    \o Flatten([k \in 1..5 |->
           <<[op |-> "toggleClasses", example |-> index], [op |-> "flipHue"],
             WaitForTimeout(30)>>])
    \o <<WaitForTimeout(50)>>

ExpectedScenario ==
    Flatten([e \in 1..8 |-> ExpectedExample(<<0, 1, 8, 9, 10, 11, 12, 13>>[e])])

\* The number of operations of a kind in a list.
CountOps(operations, kind) ==
    Cardinality({k \in 1..Len(operations) : operations[k].op = kind})

\* C24: the operations issued by one run of the scenario are the same for
\* every variant and every trial, whatever the configuration and the state
\* earlier trials left: the described script over the examples 0, 1, 8, 9,
\* 10, 11, 12, 13, with 120 scroll increments, 40 injected nodes and 40
\* property flips in a run.
C24_ScenarioIsFixedScript ==
    /\ scenario.pc # "none" => IsPrefix(scenario.issued, ExpectedScenario)
    /\ scenario.pc = "done" =>
          /\ scenario.issued = ExpectedScenario
          /\ CountOps(scenario.issued, "scrollBy") = 120
          /\ CountOps(scenario.issued, "appendChild") = 40
          /\ CountOps(scenario.issued, "flipHue") = 40

\* The second run on a page set up for an event-driven variant is over; the
\* page holds the nodes both runs appended.
C24_Witness ==
    /\ scenario.pc = "done"
    /\ scenario.number = 2
    /\ scenario.config.scheduler = "microtask"
    /\ scenario.hue = "340"
    /\ scenario.dynamicNodes = 80
    /\ Len(scenario.issued) = 432

-----------------------------------------------------------------------------
(* Properties of the suite off Chromium (SuiteSpec) *)

\* No config applied, no session opened, no trace captured, no trial and no
\* result kept by any worker process.
NothingMeasured ==
    \A w \in Workers :
        /\ pc[w] \notin BodyPcs \ {"beforeEach"}
        /\ client[w] = NoClient
        /\ events[w] = <<>>
        /\ hist[w].log = <<>>
        /\ hist[w].pushed = <<>>
        /\ hist[w].outcomes = <<>>
        /\ runs[w] = <<>>
        /\ results[w] = EmptyMap

\* C25: on a browser other than Chromium the suite is a no-op: for every
\* variant no configuration is applied, no session is opened, no trace is
\* captured, no result is stored, and nothing is written to the output
\* location.
C25_NoOpOffChromium ==
    browserName # "chromium" =>
        /\ NothingMeasured
        /\ file = NoFile
        /\ saves = 0

-----------------------------------------------------------------------------
(* The sample gate and the summary on longer trial lists (GateSpec): a test  *)
(* body that has left its trial loop with runsPerVariant = N trials run, any *)
(* of them failed, goes through the gate, the summary and the regression     *)
(* checks with the default ceilings, enforced or not.                        *)

MaxGateRuns == 6

GateDurations == {10000, 50000}

\* What one trial of the loop leaves behind: a failure, or metrics with one
\* of the sample durations.
GateOutcomes ==
    {Failed} \cup {Succeeded(Metrics(0, d, 1, 500)) : d \in GateDurations}

\* The outcomes of N trials; the trial at position k has layoutCount k.
TrialPatterns ==
    {[k \in 1..Len(p) |->
         IF p[k].ok
         THEN Succeeded([p[k].metrics EXCEPT !.layoutCount = k])
         ELSE Failed] : p \in SeqsUpTo(GateOutcomes, MaxGateRuns)}

GateInit ==
    /\ mode = "serial"
    /\ browserName = "chromium"
    /\ \E enforced \in {"", "1"} :
          /\ enforce = ENFORCE_LIMITS([TUI_PERF_ENFORCE |-> enforced])
          /\ limits = LIMITS([TUI_PERF_ENFORCE |-> enforced])
    /\ testStatus = <<"running">>
    /\ pc = [w \in Workers |-> IF w = LimitsProcess THEN "gate" ELSE "unspawned"]
    /\ cur = [w \in Workers |-> IF w = LimitsProcess THEN 1 ELSE 0]
    /\ \E outcomes \in TrialPatterns :
          /\ runsPerVariant = Len(outcomes)
          /\ run = [w \in Workers |-> IF w = LimitsProcess THEN Len(outcomes) ELSE 0]
          /\ runs = [w \in Workers |->
                        IF w = LimitsProcess THEN Successes(outcomes) ELSE <<>>]
          /\ hist = [w \in Workers |->
                        IF w = LimitsProcess
                        THEN [NoHist EXCEPT !.outcomes = outcomes]
                        ELSE NoHist]
    /\ results = [w \in Workers |-> EmptyMap]
    /\ client = [w \in Workers |-> NoClient]
    /\ events = [w \in Workers |-> <<>>]
    /\ file = NoFile
    /\ saves = 0
    /\ GenIdle

GateNext == \E w \in Workers : SampleGate(w) \/ StoreResult(w) \/ RegressionGate(w)

GateSpec == GateInit /\ [][GateNext]_vars

-----------------------------------------------------------------------------
(* Properties of the summary's denominators (GateSpec) *)

\* The summary of the worker's variant is computed: the body is past the gate.
SummaryComputed(w) == pc[w] \in {"store", "limits"} \/ results[w] # EmptyMap

\* The trials removeOutliers must keep whatever the fences are.
BetweenQuartiles(rs) ==
    {k \in 1..Len(rs) :
        /\ Q1(LayoutDurations(rs)) <= rs[k].layoutDuration
        /\ rs[k].layoutDuration <= Q3(LayoutDurations(rs))}

(* C26: whenever the summary of a variant is computed, every mean is taken   *)
(* over at least one trial: for every N >= 0 and every pattern of failed     *)
(* trials the gate lets calculateStatistics run only on a non-empty trial    *)
(* list, and of a list of four or more trials removeOutliers keeps every     *)
(* trial whose layoutDuration lies between Q1 and Q3, so at least one.       *)
C26_MeansOverAtLeastOneTrial ==
    \A w \in Workers : SummaryComputed(w) =>
        /\ runs[w] # <<>>
        /\ removeOutliers(runs[w]) # <<>>
        /\ \A metric \in DOMAIN calculateStatistics(runs[w]) :
              calculateStatistics(runs[w])[metric][2] >= 1
        /\ Len(runs[w]) >= 4 =>
              /\ BetweenQuartiles(runs[w]) # {}
              /\ \A k \in BetweenQuartiles(runs[w]) :
                    \E j \in 1..Len(removeOutliers(runs[w])) :
                        removeOutliers(runs[w])[j] = runs[w][k]

\* A summary computed over five trials of six, one trial having failed and
\* one being dropped as an outlier.
C26_Witness ==
    /\ pc[LimitsProcess] = "limits"
    /\ runsPerVariant = 6
    /\ \E k \in 1..6 : ~hist[LimitsProcess].outcomes[k].ok
    /\ Len(runs[LimitsProcess]) = 5
    /\ Len(removeOutliers(runs[LimitsProcess])) = 4

-----------------------------------------------------------------------------
(* Properties of the session at the end of a trial (Spec) *)

\* The session the worker's current trial opened, if it opened one, is
\* detached and not tracing, and no earlier session is still attached.
SessionsClosed(w) ==
    /\ client[w].state # "attached"
    /\ ~client[w].tracing
    /\ client[w].open = 0

(* C27: at the end of every trial, whether its capture returned or failed,   *)
(* the session opened for the trial is detached and tracing no longer runs   *)
(* on it, so when a trial starts no session of an earlier trial is attached. *)
C27_SessionClosedAfterTrial ==
    \A w \in Workers :
        /\ pc[w] = "pause" => SessionsClosed(w)
        /\ pc[w] = "capture" => SessionsClosed(w)

-----------------------------------------------------------------------------
(* VerdictSpec: the suite as in SuiteSpec, with the layout-count ceiling at  *)
(* its default or at 1, which the mean of the sample trace reaches.          *)

CeilingEnvs ==
    {[TUI_PERF_MAX_LAYOUT_COUNT |-> ""], [TUI_PERF_MAX_LAYOUT_COUNT |-> "1"]}

VerdictInit ==
    /\ SuiteInitUnder({"serial", "parallel"}, MaxSuiteRuns, MaxTests, CeilingEnvs)
    /\ GenIdle

VerdictSpec == VerdictInit /\ [][SuiteNext]_vars

-----------------------------------------------------------------------------
(* Properties of the order of the store and the regression checks            *)
(* (VerdictSpec)                                                             *)

\* The tests whose sample gate passed, in whichever worker they ran.
GatedTests == UNION {hist[w].gated : w \in Workers}

\* The worker's process holds a result under the name of test i.
InStore(w, i) == MapHas(results[w], TEST_VARIANTS[i].name)

\* The output file holds a result under the name of test i.
InArtifact(i) == file # NoFile /\ MapHas(Content(file).results, TEST_VARIANTS[i].name)

\* The result is in the store when the regression checks are evaluated, and
\* stays there for as long as the worker's process lives.
StoredBeforeChecks ==
    \A w \in Workers :
        (cur[w] \in hist[w].gated /\ pc[w] \in {"limits", "afterAll", "idle"}) =>
            InStore(w, cur[w])

\* A test that fails the gate, or fails before it, is in no store and in no
\* artifact.
NeverStoredUngated ==
    \A i \in Tests \ GatedTests :
        /\ \A w \in Workers : ~InStore(w, i)
        /\ ~InArtifact(i)

(* C28: the result of a variant is added to the store before the regression  *)
(* checks are evaluated: a variant that passes the sample gate is in the     *)
(* store, and in the artifact the suite run leaves, whether or not it then   *)
(* fails a ceiling under enforcement; a variant that fails the sample gate   *)
(* or whose configuration could not be applied is never in either.           *)
C28_StoredBeforeRegressionGate ==
    /\ StoredBeforeChecks
    /\ NeverStoredUngated
    /\ SuiteDone => \A i \in GatedTests : InArtifact(i)

-----------------------------------------------------------------------------
(* Properties of the stored trial list (GateSpec) *)

\* The number of captures of the worker's test that returned.
SuccessfulCaptures(w) ==
    Cardinality({k \in 1..Len(hist[w].outcomes) : hist[w].outcomes[k].ok})

(* C29: the runs list stored in a variant's result is the complete list of   *)
(* the successful trials in trial order, as long as the number of successful *)
(* captures: the trials removeOutliers left out of the summary are still in  *)
(* it, and the sample gate counts the trials before the outlier filter.      *)
C29_StoredRunsAreAllSuccessfulTrials ==
    \A w \in Workers : cur[w] # 0 =>
        /\ MapHas(results[w], Variant(w).name) =>
              /\ StoredTrials(w) = Successes(hist[w].outcomes)
              /\ Len(StoredTrials(w)) = SuccessfulCaptures(w)
              /\ \A k \in 1..Len(runs[w]) :
                    \E j \in 1..Len(StoredTrials(w)) : StoredTrials(w)[j] = runs[w][k]
        /\ cur[w] \in hist[w].gated => GatePasses(SuccessfulCaptures(w), runsPerVariant)
        /\ (pc[w] = "afterAll" /\ Len(hist[w].outcomes) = runsPerVariant
               /\ hist[w].timedOut = "no" /\ cur[w] \notin hist[w].gated) =>
              ~GatePasses(SuccessfulCaptures(w), runsPerVariant)

\* Six trials, one failed and one left out of the summary as an outlier: the
\* stored list has the five successful trials, and the gate passed on five
\* trials where four would not have passed.
C29_Witness ==
    /\ MapHas(results[LimitsProcess], Variant(LimitsProcess).name)
    /\ runsPerVariant = 6
    /\ Len(StoredTrials(LimitsProcess)) = 5
    /\ Len(removeOutliers(StoredTrials(LimitsProcess))) = 4
    /\ GatePasses(5, 6) /\ ~GatePasses(4, 6)

-----------------------------------------------------------------------------
(* TimingSpec: the fixed pauses of one variant test against its timeout.     *)
(* timing.elapsed is the sum of the waitForTimeout pauses the test body has  *)
(* gone through, a lower bound of the time the test has run; every other     *)
(* await takes time that is not fixed, so the timeout may also fire earlier. *)

MaxTimedRuns == 31

StabilizationMs == 500   \* setupTestEnvironment: page.waitForTimeout(500)

RunPauseMs == 200        \* trial loop: page.waitForTimeout(200)

TestTimeoutMs == 120000  \* test.setTimeout(120000)

CaptureOneExampleMs == StabilizationMs + ScenarioPauseMs \div Len(exampleIndices)

\* The pauses of a capture that returns: setupTestEnvironment, then the whole
\* scenario.
CapturePauseMs == StabilizationMs + ScenarioPauseMs

\* The pauses a capture has gone through when it fails: none (the session or
\* the throttle command failed) or the stabilization (Tracing.start failed);
\* a capture that fails later has gone through more.
FailedCapturePauses == {0, StabilizationMs}

\* The variables the test body's pauses leave alone.
timingFrame ==
    <<suiteVars, page, scenario, added, valueLists, catalog, loaded, input, output>>

TimingStart(n) ==
    [at |-> "loop", runsPerVariant |-> n, run |-> 0, returned |-> 0, elapsed |-> 0]

TimingInit ==
    /\ SuiteIdle
    /\ added = <<>>
    /\ valueLists = [raf |-> <<>>, debounce |-> <<>>, throttle |-> <<>>]
    /\ catalog = <<>>
    /\ loaded = FALSE
    /\ input = <<>>
    /\ output = <<>>
    /\ page = NoPage
    /\ scenario = NoScenario
    /\ timing \in {TimingStart(n) : n \in 0..MaxTimedRuns}

\* for (let run = 0; run < CONFIG.runsPerVariant; run++)
TimedLoopHead ==
    /\ timing.at = "loop"
    /\ timing' = [timing EXCEPT !.at = IF timing.run < timing.runsPerVariant
                                       THEN "capture" ELSE "gate"]
    /\ UNCHANGED timingFrame

\* A pause of ms milliseconds has ended before the timeout.
PauseEnds(ms) == timing.elapsed + ms < TestTimeoutMs

\* capturePerformanceTrace returns.
TimedCaptureReturns ==
    /\ timing.at = "capture"
    /\ PauseEnds(CapturePauseMs)
    /\ timing' = [timing EXCEPT !.at = "pause",
                                !.returned = @ + 1,
                                !.elapsed = @ + CapturePauseMs]
    /\ UNCHANGED timingFrame

\* capturePerformanceTrace throws; the catch of the trial loop absorbs it.
TimedCaptureFails ==
    /\ timing.at = "capture"
    /\ \E ms \in FailedCapturePauses :
          /\ PauseEnds(ms)
          /\ timing' = [timing EXCEPT !.at = "pause", !.elapsed = @ + ms]
    /\ UNCHANGED timingFrame

\* await page.waitForTimeout(200); run++
TimedRunPause ==
    /\ timing.at = "pause"
    /\ PauseEnds(RunPauseMs)
    /\ timing' = [timing EXCEPT !.at = "loop",
                                !.run = @ + 1,
                                !.elapsed = @ + RunPauseMs]
    /\ UNCHANGED timingFrame

\* The timeout fires while the body is suspended on an await.
TimedOut ==
    /\ timing.at \in {"capture", "pause"}
    /\ timing' = [timing EXCEPT !.at = "timedOut"]
    /\ UNCHANGED timingFrame

TimingNext ==
    \/ TimedLoopHead \/ TimedCaptureReturns \/ TimedCaptureFails
    \/ TimedRunPause \/ TimedOut

TimingSpec == TimingInit /\ [][TimingNext]_vars

-----------------------------------------------------------------------------
(* Properties of the fixed pauses (TimingSpec) *)

\* The pauses of one trial whose capture returns.
TrialPauseMs == CapturePauseMs + RunPauseMs

\* The variant has gone through its whole trial loop.
LoopCompleted == timing.at = "gate"

\* The arithmetic of the pauses: 500 + 8 x (100 + 15 x 8 + 5 x 30 + 50) + 200
\* is 4060 ms, and ten trials take 40600 ms, less than the timeout.
PauseArithmetic ==
    /\ StabilizationMs = 500
    /\ ScenarioPauseMs = 8 * (100 + 15 * 8 + 5 * 30 + 50)
    /\ RunPauseMs = 200
    /\ TrialPauseMs = 4060
    /\ DefaultRuns * TrialPauseMs = 40600
    /\ TestTimeoutMs = 120000
    /\ DefaultRuns * TrialPauseMs < TestTimeoutMs

=============================================================================
